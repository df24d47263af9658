--------------------------- MODULE ServicesProofs ---------------------------
(***************************************************************************)
(* Theorems about the services around the queue: Fleet, Balancer, Health   *)
(* and Resources, each about the specification of the service by itself.   *)
(* ServicesAreEach carries them over to ServicesSpec.                       *)
(***************************************************************************)
EXTENDS MCServices, PipelineProofs, ProducersProofs

-----------------------------------------------------------------------------
\* Fleet: add, move and remove tasks.

FleetSpec == FleetInit /\ [][FleetNext]_fleetVars

\* What the fields of a task are for.
JobShape(r) ==
    \/ r = NoJob
    \/ /\ r.kind \in {"add", "move", "remove"} /\ r.ch \in Channels
       /\ r.pc \in {"queued", "join", "leave", "pg", "persist"}
       /\ r.kind = "add" => r.from = Nobody /\ r.to \in FleetAccounts /\ r.pc # "leave"
       /\ r.kind = "move" => /\ r.from \in FleetAccounts /\ r.to \in FleetAccounts
                             /\ r.from # r.to /\ r.pc # "leave"
       /\ r.kind = "remove" => r.from \in FleetAccounts /\ r.to = Nobody /\ r.pc # "join"

\* The file is behind on c and the clump of a, or holds c for a good reason.
Stale(a, c) == <<ClumpOf[a], c>> \in unsaved
Saved(a, c) == c \in stored[a] /\ ~Stale(a, c)

\* At rest: what FleetAgrees says of c.
Agree(c) ==
    \A a \in FleetAccounts : /\ c \in listens[a] <=> assignedTo[c] = a
                             /\ Stale(a, c) \/ (c \in stored[a] <=> assignedTo[c] = a)
                             /\ c \in listens[a] => c \in follows[a]

\* While a task r is at work on c, and between its attempts, whatever the process
\* forgot: only the accounts of the task have to do with c.
AtWorkOn(c, r) ==
    /\ \A a \in FleetAccounts : c \in listens[a] \/ Saved(a, c) => a \in {r.from, r.to}
    /\ assignedTo[c] \in {r.from, r.to}
    /\ r.kind # "remove" => \A a \in FleetAccounts : c \in listens[a] \/ Saved(a, c) => c \in follows[a]
    /\ r.kind = "remove" => c \notin inProject
    /\ r.pc \in {"pg", "persist"} =>
          /\ \A a \in FleetAccounts : c \in listens[a] <=> a = r.to
          /\ r.kind = "move" /\ ClumpOf[r.from] # ClumpOf[r.to] => ~Saved(r.from, c)
    /\ r.pc = "persist" => assignedTo[c] = r.to
    /\ r.pc = "join" /\ r.kind = "move" /\ ClumpOf[r.from] = ClumpOf[r.to] => c \notin listens[r.from]

ChannelInv(c) ==
    c \notin incident =>
       /\ \A i, j \in Jobs : job[i].ch = c /\ job[j].ch = c => i = j
       /\ \A j \in Jobs : job[j].ch = c => AtWorkOn(c, job[j])
       /\ (\A j \in Jobs : job[j].ch # c) => Agree(c)

FleetInv ==
    /\ FleetTypeOK
    /\ \A j \in Jobs : JobShape(job[j])
    /\ \A c \in Channels : ChannelInv(c)

-----------------------------------------------------------------------------
\* A step leaves what is known of c alone, but may save the clump of who listens to it.
SliceStands(c) ==
    /\ \A a \in FleetAccounts : /\ c \in listens'[a] <=> c \in listens[a]
                                /\ \/ /\ c \in stored'[a] <=> c \in stored[a]
                                      /\ Stale(a, c)' <=> Stale(a, c)
                                   \/ /\ c \in stored'[a] <=> c \in listens[a]
                                      /\ ~Stale(a, c)'
                                /\ c \in follows'[a] <=> c \in follows[a]
    /\ assignedTo'[c] = assignedTo[c]
    /\ c \in inProject' <=> c \in inProject

\* So it keeps the channels of the other tasks, and those without a task.
LEMMA UnconcernedStep ==
    ASSUME FleetInv, NEW c \in Channels, SliceStands(c), c \in incident => c \in incident',
           \A i \in Jobs : job'[i].ch = c \/ job[i].ch = c => job'[i] = job[i]
    PROVE  ChannelInv(c)'
  <1> SUFFICES ASSUME c \notin incident'
               PROVE  /\ \A i, j \in Jobs : job'[i].ch = c /\ job'[j].ch = c => i = j
                      /\ \A j \in Jobs : job'[j].ch = c => AtWorkOn(c, job[j])'
                      /\ (\A j \in Jobs : job'[j].ch # c) => Agree(c)'
    BY DEF ChannelInv
  <1>1. /\ \A i, j \in Jobs : job[i].ch = c /\ job[j].ch = c => i = j
        /\ \A j \in Jobs : job[j].ch = c => AtWorkOn(c, job[j])
        /\ (\A j \in Jobs : job[j].ch # c) => Agree(c)
    BY DEF FleetInv, ChannelInv
  <1>2. \A i, j \in Jobs : job'[i].ch = c /\ job'[j].ch = c => i = j
    BY <1>1
  <1>3. ASSUME NEW j \in Jobs, job'[j].ch = c PROVE AtWorkOn(c, job[j])'
    <2> DEFINE r == job[j]
    <2>1. job'[j] = r /\ r.ch = c /\ AtWorkOn(c, r) /\ JobShape(r)
      BY <1>1, <1>3 DEF FleetInv
    <2>2. r.kind = "move" => r.from \in FleetAccounts /\ r.to \in FleetAccounts /\ r.from # r.to
      BY <2>1, FleetAssumption DEF JobShape, NoJob
    <2> HIDE DEF r
    <2>3. QED
      BY <2>1, <2>2 DEF AtWorkOn, SliceStands, Saved, Stale
  <1>4. ASSUME \A j \in Jobs : job'[j].ch # c PROVE Agree(c)'
    <2>1. Agree(c)
      BY <1>1, <1>4
    <2>2. QED
      BY <2>1 DEF Agree, SliceStands, Saved, Stale
  <1>5. QED
    BY <1>2, <1>3, <1>4

\* What a step of a task has to show.
LEMMA JobStepSuffices ==
    ASSUME FleetInv, FleetTypeOK', NEW j \in Jobs, NEW old, old = job[j], old # NoJob,
           NEW r, job' = [job EXCEPT ![j] = r], r = NoJob \/ (JobShape(r) /\ r.ch = old.ch),
           incident \subseteq incident',
           \A d \in Channels \ {old.ch} : SliceStands(d),
           old.ch \notin incident' => IF r = NoJob THEN Agree(old.ch)' ELSE AtWorkOn(old.ch, r)'
    PROVE  FleetInv'
  <1>0. old.ch \in Channels
    BY DEF FleetInv, JobShape
  <1>1. job \in [Jobs -> Job] /\ NoJob.ch = Nobody
    BY DEF FleetInv, FleetTypeOK, NoJob
  <1>2. job'[j] = r /\ \A i \in Jobs \ {j} : job'[i] = job[i]
    BY <1>1
  <1>3. \A d \in Channels \ {old.ch} : ChannelInv(d)'
    <2> TAKE d \in Channels \ {old.ch}
    <2>1. \A i \in Jobs : job'[i].ch = d \/ job[i].ch = d => job'[i] = job[i]
      BY <1>1, <1>2, FleetAssumption
    <2>2. QED
      BY <2>1, UnconcernedStep
  <1>4. ChannelInv(old.ch)'
    <2> SUFFICES ASSUME old.ch \notin incident'
                 PROVE  /\ \A i, k \in Jobs : job'[i].ch = old.ch /\ job'[k].ch = old.ch => i = k
                        /\ \A i \in Jobs : job'[i].ch = old.ch => AtWorkOn(old.ch, job[i])'
                        /\ (\A i \in Jobs : job'[i].ch # old.ch) => Agree(old.ch)'
      BY DEF ChannelInv
    <2>1. \A i \in Jobs \ {j} : job[i].ch # old.ch
      BY <1>0 DEF FleetInv, ChannelInv
    <2>2. \A i \in Jobs : job'[i].ch = old.ch => i = j
      BY <1>2, <2>1
    <2>3. r # NoJob => r.ch = old.ch
      OBVIOUS
    <2>4. r = NoJob => r.ch # old.ch
      BY <1>0, <1>1, FleetAssumption
    <2>5. \A i \in Jobs : job'[i].ch = old.ch => AtWorkOn(old.ch, job[i])'
      BY <1>2, <2>2, <2>4
    <2>6. (\A i \in Jobs : job'[i].ch # old.ch) => Agree(old.ch)'
      BY <1>2, <2>3
    <2>7. QED
      BY <2>2, <2>5, <2>6
  <1>5. \A i \in Jobs : JobShape(job'[i])
    BY <1>2 DEF FleetInv, JobShape
  <1>6. \A d \in Channels : ChannelInv(d)'
    BY <1>3, <1>4
  <1>7. JobShape(NoJob)
    BY DEF JobShape
  <1>8. (\A i \in Jobs : JobShape(job[i]))'
    BY <1>5 DEF JobShape, NoJob
  <1>9. QED
    BY <1>6, <1>8 DEF FleetInv

\* A task goes on to another program point, or is over.
LEMMA StepTo ==
    ASSUME job \in [Jobs -> Job], NEW j \in Jobs, NEW old, old = job[j],
           NEW pc \in {"free", "queued", "join", "leave", "pg", "persist"}, Step(j, pc)
    PROVE  \E r : /\ job' = [job EXCEPT ![j] = r] /\ job' \in [Jobs -> Job]
                  /\ pc = "free" => r = NoJob
                  /\ pc # "free" => /\ r.kind = old.kind /\ r.ch = old.ch /\ r.from = old.from /\ r.to = old.to
                                    /\ r.pc = pc
  <1>1. CASE pc = "free"
    <2>1. job' = [job EXCEPT ![j] = NoJob]
      BY <1>1 DEF Step
    <2>2. NoJob \in Job
      BY DEF NoJob, Job
    <2>3. QED
      BY <1>1, <2>1, <2>2
  <1>2. CASE pc # "free"
    <2>1. PICK r : r = [old EXCEPT !.pc = pc]
      OBVIOUS
    <2>2. job' = [job EXCEPT ![j] = r]
      BY <1>2, <2>1 DEF Step
    <2>3. old \in Job
      OBVIOUS
    <2>4. /\ r \in Job /\ r.kind = old.kind /\ r.ch = old.ch /\ r.from = old.from /\ r.to = old.to
          /\ r.pc = pc
      BY <2>1, <2>3 DEF Job
    <2>5. job' \in [Jobs -> Job]
      BY <2>2, <2>4
    <2>6. QED
      BY <1>2, <2>2, <2>4, <2>5
  <1>3. QED
    BY <1>1, <1>2

Memory == [FleetAccounts -> SUBSET Channels]

\* The clumps and channels of unsaved.
Stales == {ClumpOf[a] : a \in FleetAccounts} \X Channels

\* Clump.remove_channel: what it does to c and to other channels.
LEMMA Removal ==
    ASSUME NEW l \in Memory, NEW a, NEW c
    PROVE  /\ Stripped(l, a, c) \in Memory
           /\ \A b \in FleetAccounts : \A d :
                 d \in Stripped(l, a, c)[b] <=> d \in l[b] /\ ~(d = c /\ ClumpOf[b] = ClumpOf[a])
  BY DEF Stripped, Memory

\* It strips the clump of a, unless c becomes an exception.
LEMMA Releasing ==
    ASSUME NEW l \in Memory, NEW j \in Jobs, NEW a, a = job[j].from, NEW c \in Channels, c = job[j].ch,
           NEW agreed \in BOOLEAN, Releases(j, l, agreed), incident \subseteq Channels
    PROVE  /\ listens' \in Memory /\ incident \subseteq incident' /\ incident' \subseteq Channels
           /\ \A b \in FleetAccounts : \A d : d # c => (d \in listens'[b] <=> d \in l[b])
           /\ c \notin incident' =>
                 /\ agreed
                 /\ \A b \in FleetAccounts : c \in listens'[b] <=> c \in l[b] /\ ClumpOf[b] # ClumpOf[a]
  <1>1. CASE listens' = Stripped(l, a, c) /\ IF agreed THEN UNCHANGED incident ELSE Excepted(c)
    BY <1>1, Removal DEF Excepted
  <1>2. CASE listens' = l /\ Excepted(c)
    BY <1>2 DEF Excepted
  <1>3. QED
    BY <1>1, <1>2 DEF Releases

\* persist_state writes the channels of one clump, or leaves the file behind on c.
LEMMA Saving ==
    ASSUME NEW l \in Memory, stored \in Memory, unsaved \subseteq Stales,
           NEW a \in FleetAccounts, NEW c \in Channels, SaveClump(l, a, c)
    PROVE  /\ stored' \in Memory /\ unsaved' \subseteq Stales
           /\ \A b \in FleetAccounts :
                 IF ClumpOf[b] = ClumpOf[a]
                 THEN Stale(b, c)' \/ (c \in stored'[b] <=> c \in l[b])
                 ELSE (c \in stored'[b] <=> c \in stored[b]) /\ (Stale(b, c)' <=> Stale(b, c))
           /\ \A b \in FleetAccounts : \A d : d # c =>
                 \/ (d \in stored'[b] <=> d \in stored[b]) /\ (Stale(b, d)' <=> Stale(b, d))
                 \/ (d \in stored'[b] <=> d \in l[b]) /\ ~Stale(b, d)'
  <1>1. CASE stored' = PersistedWith(l, a) /\ unsaved' = {u \in unsaved : u[1] # ClumpOf[a]}
    <2>1. /\ stored' \in Memory
          /\ \A b \in FleetAccounts : stored'[b] = IF ClumpOf[b] = ClumpOf[a] THEN l[b] ELSE stored[b]
      BY <1>1 DEF PersistedWith, Memory
    <2>2. \A b, d : Stale(b, d)' <=> Stale(b, d) /\ ClumpOf[b] # ClumpOf[a]
      BY <1>1 DEF Stale
    <2>3. unsaved' \subseteq Stales
      BY <1>1
    <2>4. QED
      BY <2>1, <2>2, <2>3
  <1>2. CASE stored' = stored /\ unsaved' = unsaved \cup {<<ClumpOf[a], c>>}
    <2>1. \A b, d : Stale(b, d)' <=> Stale(b, d) \/ (ClumpOf[b] = ClumpOf[a] /\ d = c)
      BY <1>2 DEF Stale
    <2>2. unsaved' \subseteq Stales
      BY <1>2 DEF Stales
    <2>3. QED
      BY <1>2, <2>1, <2>2
  <1>3. QED
    BY <1>1, <1>2 DEF SaveClump

\* The types, of what a step of a task leaves.
LEMMA FleetTypeStep ==
    ASSUME FleetTypeOK, listens' \in Memory, stored' \in Memory, follows' \in Memory,
           assignedTo' \in [Channels -> FleetAccounts \cup {Nobody}],
           inProject' \subseteq Channels, incident' \subseteq Channels, job' \in [Jobs -> Job],
           unsaved' \subseteq Stales
    PROVE  FleetTypeOK'
  BY DEF FleetTypeOK, Memory, Stales

\* One await or write of a task, action by action.
LEMMA JobStepInv ==
    ASSUME FleetInv, NEW j \in Jobs, JobStep(j)
    PROVE  FleetInv'
  <1>0. PICK old : old = job[j]
    OBVIOUS
  <1>1. /\ listens \in Memory /\ stored \in Memory /\ follows \in Memory
        /\ assignedTo \in [Channels -> FleetAccounts \cup {Nobody}]
        /\ inProject \subseteq Channels /\ incident \subseteq Channels /\ job \in [Jobs -> Job]
        /\ unsaved \subseteq Stales /\ FleetTypeOK
    <2>1. FleetTypeOK
      BY DEF FleetInv
    <2>2. unsaved \subseteq Stales
      BY <2>1 DEF FleetTypeOK, Stales
    <2>3. /\ listens \in Memory /\ stored \in Memory /\ follows \in Memory
          /\ assignedTo \in [Channels -> FleetAccounts \cup {Nobody}]
          /\ inProject \subseteq Channels /\ incident \subseteq Channels /\ job \in [Jobs -> Job]
      BY <2>1 DEF FleetTypeOK, Memory
    <2>4. QED
      BY <2>1, <2>2, <2>3
  <1>2. old.pc # "free" /\ old # NoJob
    <2>1. LeftBy(j) \/ JoinedBy(j) => old.pc \in {"join", "leave"}
      BY <1>0, Zenon DEF LeftBy, JoinedBy
    <2>2. NoJob.pc = "free"
      BY DEF NoJob
    <2>3. QED
      BY <1>0, <2>1, <2>2
         DEF JobStep, BeginAdd, BeginMoveWithin, BeginMoveAcross, BeginRemove, Begins, AttemptFails,
             WriteAssignment, PersistClump
  <1>3. PICK c \in Channels : c = old.ch
    BY <1>0, <1>2 DEF FleetInv, JobShape
  <1>4. /\ JobShape(old) /\ old.kind \in {"add", "move", "remove"}
        /\ old.kind = "add" => old.from = Nobody /\ old.to \in FleetAccounts /\ old.pc # "leave"
        /\ old.kind = "move" => /\ old.from \in FleetAccounts /\ old.to \in FleetAccounts
                              /\ old.from # old.to /\ old.pc # "leave"
        /\ old.kind = "remove" => old.from \in FleetAccounts /\ old.to = Nobody /\ old.pc # "join"
    BY <1>0, <1>2 DEF FleetInv, JobShape
  <1>5. c \notin incident => AtWorkOn(c, old)
    BY <1>0, <1>3 DEF FleetInv, ChannelInv
  <1> DEFINE Tracked(pc) ==
          \E r : /\ job' = [job EXCEPT ![j] = r] /\ job' \in [Jobs -> Job]
                 /\ pc = "free" => r = NoJob
                 /\ pc # "free" => /\ r.kind = old.kind /\ r.ch = old.ch /\ r.from = old.from /\ r.to = old.to
                                   /\ r.pc = pc
         Continues(r, pc) == /\ AtWorkOn(c, old) /\ r.pc = pc
                             /\ r.kind = old.kind /\ r.from = old.from /\ r.to = old.to
  <1>6. ASSUME NEW pc \in {"free", "queued", "join", "leave", "pg", "persist"}, Step(j, pc)
        PROVE  Tracked(pc)
    BY <1>0, <1>1, <1>6, StepTo
  \* What is left to show in each case, for a task that goes on and one that is over.
  <1>7. ASSUME NEW pc \in {"queued", "join", "leave", "pg", "persist"}, Step(j, pc),
               pc = "leave" => old.kind = "remove", pc = "join" => old.kind # "remove",
               listens' \in Memory, stored' \in Memory, follows' \in Memory,
               assignedTo' \in [Channels -> FleetAccounts \cup {Nobody}],
               UNCHANGED inProject, incident \subseteq incident', incident' \subseteq Channels,
               unsaved' \subseteq Stales,
               \A d \in Channels \ {c} : SliceStands(d),
               \A r : c \notin incident' /\ Continues(r, pc) => AtWorkOn(c, r)'
        PROVE  FleetInv'
    <2>1. PICK r : /\ job' = [job EXCEPT ![j] = r] /\ job' \in [Jobs -> Job]
                   /\ r.kind = old.kind /\ r.ch = old.ch /\ r.from = old.from /\ r.to = old.to /\ r.pc = pc
      BY <1>6, <1>7
    <2>2. JobShape(r)
      BY <1>3, <1>4, <1>7, <2>1 DEF JobShape
    <2>3. r # NoJob
      BY <1>7, <2>1 DEF NoJob
    <2>4. c \notin incident' => AtWorkOn(c, r)'
      BY <1>5, <1>7, <2>1
    <2>5. FleetTypeOK'
      BY <1>1, <1>7, <2>1, FleetTypeStep
    <2>6. QED
      BY <1>0, <1>2, <1>3, <1>7, <2>1, <2>2, <2>3, <2>4, <2>5, JobStepSuffices
  <1>8. ASSUME Step(j, "free"),
               listens' \in Memory, stored' \in Memory, follows' \in Memory,
               UNCHANGED <<inProject, assignedTo>>, incident \subseteq incident', incident' \subseteq Channels,
               unsaved' \subseteq Stales,
               \A d \in Channels \ {c} : SliceStands(d),
               c \notin incident' /\ AtWorkOn(c, old) => Agree(c)'
        PROVE  FleetInv'
    <2>1. job' = [job EXCEPT ![j] = NoJob] /\ job' \in [Jobs -> Job]
      BY <1>6, <1>8
    <2>2. FleetTypeOK'
      BY <1>1, <1>8, <2>1, FleetTypeStep
    <2>3. PICK r : r = NoJob
      OBVIOUS
    <2>4. QED
      BY <1>0, <1>2, <1>3, <1>5, <1>8, <2>1, <2>2, <2>3, JobStepSuffices
  \* A step that changes nothing but the program point.
  <1>9. ASSUME UNCHANGED <<listens, stored, follows, assignedTo, inProject, unsaved>>
        PROVE  /\ listens' \in Memory /\ stored' \in Memory /\ follows' \in Memory
               /\ unsaved' \subseteq Stales
               /\ assignedTo' \in [Channels -> FleetAccounts \cup {Nobody}]
               /\ \A d \in Channels : SliceStands(d)
    BY <1>1, <1>9 DEF SliceStands, Stale
  <1>10. ASSUME Excepted(c) PROVE incident \subseteq incident' /\ incident' \subseteq Channels /\ c \in incident'
    BY <1>1, <1>10 DEF Excepted
  <1>11. CASE BeginAdd(j)
    <2>0. /\ old.kind = "add" /\ old.pc = "queued"
          /\ UNCHANGED <<listens, stored, follows, assignedTo, inProject, unsaved>>
      BY <1>0, <1>11 DEF BeginAdd, Begins
    <2>1. CASE OwnersBeside(old.to, c) = {}
      <3>1. Step(j, "join") /\ UNCHANGED incident
        BY <1>0, <1>3, <1>11, <2>1 DEF BeginAdd
      <3>2. \A r : Continues(r, "join") => AtWorkOn(c, r)'
        BY <2>0 DEF AtWorkOn, Saved, Stale
      <3>3. QED
        BY <1>1, <1>7, <1>9, <2>0, <3>1, <3>2
    <2>2. CASE OwnersBeside(old.to, c) = {old.to}
      <3>1. Step(j, "pg") /\ UNCHANGED incident
        BY <1>0, <1>3, <1>11, <2>2 DEF BeginAdd
      <3>2. c \in listens[old.to]
        BY <2>2 DEF OwnersBeside, HearersOf
      <3>3. \A r : Continues(r, "pg") => AtWorkOn(c, r)'
        BY <1>4, <2>0, <3>2, FleetAssumption DEF AtWorkOn, Saved, Stale
      <3>4. QED
        BY <1>1, <1>7, <1>9, <2>0, <3>1, <3>3
    <2>3. CASE OwnersBeside(old.to, c) \notin {{}, {old.to}}
      <3>1. Step(j, "free") /\ Excepted(c)
        BY <1>0, <1>3, <1>11, <2>3 DEF BeginAdd
      <3>2. QED
        BY <1>1, <1>8, <1>9, <1>10, <2>0, <3>1
    <2>4. QED
      BY <2>1, <2>2, <2>3
  <1>12. CASE BeginMoveWithin(j)
    <2>0. /\ old.kind = "move" /\ old.pc = "queued" /\ ClumpOf[old.from] = ClumpOf[old.to]
          /\ UNCHANGED <<stored, follows, assignedTo, inProject, unsaved>>
          /\ old.from \in FleetAccounts /\ old.to \in FleetAccounts /\ old.from # old.to
      BY <1>0, <1>4, <1>12 DEF BeginMoveWithin, Begins, SameClump
    <2>1. CASE OwnersBeside(old.to, c) = {old.to}
      <3>0. OwnersBeside(old.to, c) \subseteq AccountsOf(j)
        BY <1>0, <2>0, <2>1, FleetAssumption DEF AccountsOf
      <3>1. Step(j, "pg") /\ UNCHANGED <<incident, listens>>
        BY <1>0, <1>3, <1>12, <2>1, <3>0 DEF BeginMoveWithin
      <3>2. c \in listens[old.to] /\ c \notin listens[old.from]
        BY <2>0, <2>1 DEF OwnersBeside, HearersOf
      <3>3. \A r : Continues(r, "pg") => AtWorkOn(c, r)'
        BY <2>0, <3>1, <3>2, FleetAssumption DEF AtWorkOn, Saved, Stale
      <3>4. QED
        BY <1>1, <1>7, <1>9, <2>0, <3>1, <3>3
    <2>2. CASE OwnersBeside(old.to, c) # {old.to} /\ OwnersBeside(old.to, c) \subseteq AccountsOf(j)
      <3>1. Step(j, "join") /\ UNCHANGED incident /\ listens' = [listens EXCEPT ![old.from] = @ \ {c}]
        BY <1>0, <1>3, <1>12, <2>2 DEF BeginMoveWithin
      <3>2. /\ listens' \in Memory
            /\ \A b \in FleetAccounts : \A d : d \in listens'[b] <=> d \in listens[b] /\ ~(d = c /\ b = old.from)
        BY <1>1, <2>0, <3>1 DEF Memory
      <3>3. \A d \in Channels \ {c} : SliceStands(d)
        BY <2>0, <3>2 DEF SliceStands, Stale
      <3>4. \A r : Continues(r, "join") => AtWorkOn(c, r)'
        BY <2>0, <3>2 DEF AtWorkOn, Saved, Stale
      <3>5. QED
        BY <1>1, <1>7, <2>0, <3>1, <3>2, <3>3, <3>4
    <2>3. CASE ~(OwnersBeside(old.to, c) \subseteq AccountsOf(j))
      <3>1. Step(j, "free") /\ Excepted(c) /\ UNCHANGED listens
        BY <1>0, <1>3, <1>12, <2>3 DEF BeginMoveWithin
      <3>2. QED
        BY <1>1, <1>8, <1>9, <1>10, <2>0, <3>1
    <2>4. QED
      BY <2>1, <2>2, <2>3
  <1>13. CASE BeginMoveAcross(j)
    <2>0. /\ old.kind = "move" /\ old.pc = "queued" /\ ClumpOf[old.from] # ClumpOf[old.to]
          /\ UNCHANGED <<follows, assignedTo, inProject>>
          /\ old.from \in FleetAccounts /\ old.to \in FleetAccounts /\ old.from # old.to
      BY <1>0, <1>4, <1>13 DEF BeginMoveAcross, Begins, SameClump
    <2>1. CASE OwnersBeside(old.to, c) = {}
      <3>1. Step(j, "join") /\ UNCHANGED <<incident, listens, stored, unsaved>>
        BY <1>0, <1>3, <1>13, <2>1 DEF BeginMoveAcross, JoinsFirst
      <3>2. \A r : Continues(r, "join") => AtWorkOn(c, r)'
        BY <2>0, <3>1 DEF AtWorkOn, Saved, Stale
      <3>3. QED
        BY <1>1, <1>7, <1>9, <2>0, <3>1, <3>2
    <2>2. CASE OwnersBeside(old.to, c) # {}
      <3>0. PICK agreed \in BOOLEAN : agreed <=> OwnersBeside(old.to, c) = {old.to}
        OBVIOUS
      <3>1. /\ Step(j, "pg")
            /\ Releases(j, listens, agreed)
            /\ SaveClump(listens', old.from, c)
        BY <1>0, <1>3, <1>13, <2>2, <3>0 DEF BeginMoveAcross, LetGo
      <3>2. /\ listens' \in Memory /\ incident \subseteq incident' /\ incident' \subseteq Channels
            /\ \A b \in FleetAccounts : \A d : d # c => (d \in listens'[b] <=> d \in listens[b])
            /\ c \notin incident' =>
                  /\ agreed
                  /\ \A b \in FleetAccounts :
                        c \in listens'[b] <=> c \in listens[b] /\ ClumpOf[b] # ClumpOf[old.from]
        BY <1>0, <1>1, <1>3, <3>1, Releasing
      <3>3. PICK l \in Memory : l = listens'
        BY <3>2
      <3>4. /\ stored' \in Memory /\ unsaved' \subseteq Stales
            /\ \A b \in FleetAccounts :
                  IF ClumpOf[b] = ClumpOf[old.from]
                  THEN Stale(b, c)' \/ (c \in stored'[b] <=> c \in l[b])
                  ELSE (c \in stored'[b] <=> c \in stored[b]) /\ (Stale(b, c)' <=> Stale(b, c))
            /\ \A b \in FleetAccounts : \A d : d # c =>
                  \/ (d \in stored'[b] <=> d \in stored[b]) /\ (Stale(b, d)' <=> Stale(b, d))
                  \/ (d \in stored'[b] <=> d \in l[b]) /\ ~Stale(b, d)'
        <4>1. SaveClump(l, old.from, c)
          BY <3>1, <3>3
        <4>2. QED
          BY <1>1, <2>0, <4>1, Saving
      <3>5. \A d \in Channels \ {c} : SliceStands(d)
        BY <2>0, <3>2, <3>3, <3>4 DEF SliceStands
      <3>6. c \notin incident' => c \in listens[old.to]
        BY <3>0, <3>2 DEF OwnersBeside, HearersOf
      <3>7. ASSUME c \notin incident', AtWorkOn(c, old)
            PROVE  /\ \A b \in FleetAccounts : c \in listens'[b] <=> b = old.to
                   /\ \A b \in FleetAccounts : Saved(b, c)' => b = old.to
                   /\ c \in follows[old.to]
        <4>1. \A b \in FleetAccounts : c \in listens'[b] <=> b = old.to
          BY <2>0, <3>2, <3>6, <3>7 DEF AtWorkOn
        <4>2. \A b \in FleetAccounts : Saved(b, c)' => b = old.to
          BY <2>0, <3>3, <3>4, <3>7, <4>1 DEF AtWorkOn, Saved
        <4>3. QED
          BY <2>0, <3>6, <3>7, <4>1, <4>2 DEF AtWorkOn
      <3>8. \A r : c \notin incident' /\ Continues(r, "pg") => AtWorkOn(c, r)'
        BY <2>0, <3>7 DEF AtWorkOn
      <3>9. QED
        BY <1>1, <1>7, <2>0, <3>1, <3>2, <3>4, <3>5, <3>8
    <2>3. QED
      BY <2>1, <2>2
  <1>14. CASE BeginRemove(j)
    <2>0. /\ old.kind = "remove" /\ old.pc = "queued"
          /\ UNCHANGED <<listens, stored, follows, assignedTo, inProject, unsaved>>
          /\ \/ c \in inProject /\ Step(j, "free") /\ UNCHANGED incident
             \/ Step(j, "leave") /\ Excepted(c)
             \/ Step(j, "leave") /\ UNCHANGED incident
      BY <1>0, <1>3, <1>14 DEF BeginRemove, Begins
    <2>1. \A r : Continues(r, "leave") => AtWorkOn(c, r)'
      BY <2>0 DEF AtWorkOn, Saved, Stale
    <2>2. CASE c \in inProject /\ Step(j, "free") /\ UNCHANGED incident
      <3>1. ~AtWorkOn(c, old)
        BY <2>0, <2>2 DEF AtWorkOn
      <3>2. QED
        BY <1>1, <1>8, <1>9, <2>0, <2>2, <3>1
    <2>3. CASE Step(j, "leave") /\ Excepted(c)
      BY <1>1, <1>7, <1>9, <1>10, <2>0, <2>1, <2>3
    <2>4. CASE Step(j, "leave") /\ UNCHANGED incident
      BY <1>1, <1>7, <1>9, <2>0, <2>1, <2>4
    <2>5. QED
      BY <2>0, <2>2, <2>3, <2>4
  <1>15. CASE JoinedBy(j)
    <2> DEFINE heard == [listens EXCEPT ![old.to] = @ \cup {c}]
    <2>0. /\ old.pc = "join" /\ old.kind \in {"add", "move"} /\ old.to \in FleetAccounts
          /\ UNCHANGED <<assignedTo, inProject>> /\ Step(j, "pg")
          /\ follows' = [follows EXCEPT ![old.to] = @ \cup {c}]
      BY <1>0, <1>3, <1>4, <1>15 DEF JoinedBy
    <2>1. IF old.kind = "move" /\ ClumpOf[old.from] # ClumpOf[old.to]
          THEN Releases(j, heard, TRUE) /\ SaveClump(listens', old.from, c)
          ELSE listens' = heard /\ UNCHANGED <<stored, unsaved, incident>>
      BY <1>0, <1>3, <1>15 DEF JoinedBy, SameClump, LetGo
    <2>2. /\ heard \in Memory
          /\ \A b \in FleetAccounts : \A d : d \in heard[b] <=> d \in listens[b] \/ (d = c /\ b = old.to)
      BY <1>1, <2>0 DEF Memory
    <2> HIDE DEF heard
    <2>3. /\ follows' \in Memory
          /\ \A b \in FleetAccounts : \A d : d \in follows'[b] <=> d \in follows[b] \/ (d = c /\ b = old.to)
      BY <1>1, <2>0 DEF Memory
    <2>4. CASE old.kind = "move" /\ ClumpOf[old.from] # ClumpOf[old.to]
      <3>1. /\ listens' \in Memory /\ incident \subseteq incident' /\ incident' \subseteq Channels
            /\ \A b \in FleetAccounts : \A d : d # c => (d \in listens'[b] <=> d \in heard[b])
            /\ c \notin incident' => \A b \in FleetAccounts :
                  c \in listens'[b] <=> c \in heard[b] /\ ClumpOf[b] # ClumpOf[old.from]
        <4>1. PICK agreed \in BOOLEAN : agreed = TRUE
          OBVIOUS
        <4>2. Releases(j, heard, agreed)
          BY <2>1, <2>4, <4>1
        <4>3. QED
          BY <1>0, <1>1, <1>3, <2>2, <4>2, Releasing
      <3>2. PICK l \in Memory : l = listens'
        BY <3>1
      <3>3. /\ stored' \in Memory /\ unsaved' \subseteq Stales
            /\ \A b \in FleetAccounts :
                  IF ClumpOf[b] = ClumpOf[old.from]
                  THEN Stale(b, c)' \/ (c \in stored'[b] <=> c \in l[b])
                  ELSE (c \in stored'[b] <=> c \in stored[b]) /\ (Stale(b, c)' <=> Stale(b, c))
            /\ \A b \in FleetAccounts : \A d : d # c =>
                  \/ (d \in stored'[b] <=> d \in stored[b]) /\ (Stale(b, d)' <=> Stale(b, d))
                  \/ (d \in stored'[b] <=> d \in l[b]) /\ ~Stale(b, d)'
        <4>1. SaveClump(l, old.from, c) /\ old.from \in FleetAccounts
          BY <1>4, <2>1, <2>4, <3>2
        <4>2. QED
          BY <1>1, <4>1, Saving
      <3>4. \A d \in Channels \ {c} : SliceStands(d)
        BY <2>0, <2>2, <2>3, <3>1, <3>2, <3>3 DEF SliceStands
      <3>5. ASSUME c \notin incident', AtWorkOn(c, old)
            PROVE  /\ \A b \in FleetAccounts : c \in listens'[b] <=> b = old.to
                   /\ \A b \in FleetAccounts : Saved(b, c)' => b = old.to
        <4>1. \A b \in FleetAccounts : c \in listens'[b] <=> b = old.to
          BY <1>4, <2>2, <2>4, <3>1, <3>5 DEF AtWorkOn
        <4>2. \A b \in FleetAccounts : Saved(b, c)' => b = old.to
          BY <1>4, <2>4, <3>2, <3>3, <3>5, <4>1 DEF AtWorkOn, Saved
        <4>3. QED
          BY <4>1, <4>2
      <3>6. \A r : c \notin incident' /\ Continues(r, "pg") => AtWorkOn(c, r)'
        BY <1>4, <2>0, <2>3, <2>4, <3>5 DEF AtWorkOn
      <3>7. QED
        BY <1>1, <1>7, <2>0, <2>3, <3>1, <3>3, <3>4, <3>6
    <2>5. CASE ~(old.kind = "move" /\ ClumpOf[old.from] # ClumpOf[old.to])
      <3>1. listens' = heard /\ UNCHANGED <<stored, unsaved, incident>>
        BY <2>1, <2>5
      <3>2. \A d \in Channels \ {c} : SliceStands(d)
        BY <2>0, <2>2, <2>3, <3>1 DEF SliceStands, Stale
      <3>3. ASSUME AtWorkOn(c, old), NEW b \in FleetAccounts, c \in listens[b] PROVE b = old.to
        BY <1>4, <2>0, <2>5, <3>3, FleetAssumption DEF AtWorkOn, Saved, Stale
      <3>4. \A r : Continues(r, "pg") => AtWorkOn(c, r)'
        BY <2>0, <2>2, <2>3, <2>5, <3>1, <3>3 DEF AtWorkOn, Saved, Stale
      <3>5. QED
        BY <1>1, <1>7, <2>0, <2>2, <2>3, <3>1, <3>2, <3>4
    <2>6. QED
      BY <2>4, <2>5
  <1>16. CASE LeftBy(j)
    <2>0. /\ old.pc = "leave" /\ old.kind = "remove" /\ old.from \in FleetAccounts /\ old.to = Nobody
          /\ UNCHANGED <<stored, assignedTo, inProject, unsaved>> /\ Step(j, "pg")
          /\ follows' = [follows EXCEPT ![old.from] = @ \ {c}]
          /\ Releases(j, listens, TRUE)
      BY <1>0, <1>3, <1>4, <1>16 DEF LeftBy
    <2>1. /\ listens' \in Memory /\ incident \subseteq incident' /\ incident' \subseteq Channels
          /\ \A b \in FleetAccounts : \A d : d # c => (d \in listens'[b] <=> d \in listens[b])
          /\ c \notin incident' => \A b \in FleetAccounts :
                c \in listens'[b] <=> c \in listens[b] /\ ClumpOf[b] # ClumpOf[old.from]
      <3>1. PICK agreed \in BOOLEAN : agreed = TRUE
        OBVIOUS
      <3>2. Releases(j, listens, agreed)
        BY <2>0, <3>1
      <3>3. QED
        BY <1>0, <1>1, <1>3, <3>2, Releasing
    <2>2. /\ follows' \in Memory
          /\ \A b \in FleetAccounts : \A d : d \in follows'[b] <=> d \in follows[b] /\ ~(d = c /\ b = old.from)
      BY <1>1, <2>0 DEF Memory
    <2>3. \A d \in Channels \ {c} : SliceStands(d)
      BY <2>0, <2>1, <2>2 DEF SliceStands, Stale
    <2>4. \A r : c \notin incident' /\ Continues(r, "pg") => AtWorkOn(c, r)'
      BY <2>0, <2>1, FleetAssumption DEF AtWorkOn, Saved, Stale
    <2>5. QED
      BY <1>1, <1>7, <2>0, <2>1, <2>2, <2>3, <2>4
  <1>17. CASE AttemptFails(j)
    <2>0. /\ old.pc \in {"join", "leave", "pg"}
          /\ UNCHANGED <<listens, stored, follows, assignedTo, inProject, unsaved>>
          /\ (Step(j, "queued") /\ UNCHANGED incident) \/ (Step(j, "free") /\ Excepted(c))
      BY <1>0, <1>3, <1>17 DEF AttemptFails, Fails
    <2>1. CASE Step(j, "queued") /\ UNCHANGED incident
      <3>1. \A r : Continues(r, "queued") => AtWorkOn(c, r)'
        BY <2>0 DEF AtWorkOn, Saved, Stale
      <3>2. QED
        BY <1>1, <1>7, <1>9, <2>0, <2>1, <3>1
    <2>2. CASE Step(j, "free") /\ Excepted(c)
      BY <1>1, <1>8, <1>9, <1>10, <2>0, <2>2
    <2>3. QED
      BY <2>0, <2>1, <2>2
  <1>18. CASE WriteAssignment(j)
    <2>0. /\ old.pc = "pg" /\ Step(j, "persist")
          /\ UNCHANGED <<listens, stored, follows, inProject, unsaved>>
          /\ \/ assignedTo' = [assignedTo EXCEPT ![c] = old.to] /\ UNCHANGED incident
             \/ UNCHANGED assignedTo /\ Excepted(c)
      BY <1>0, <1>3, <1>18 DEF WriteAssignment
    <2>1. CASE assignedTo' = [assignedTo EXCEPT ![c] = old.to] /\ UNCHANGED incident
      <3>1. old.to \in FleetAccounts \cup {Nobody}
        BY <1>4
      <3>2. /\ assignedTo' \in [Channels -> FleetAccounts \cup {Nobody}] /\ assignedTo'[c] = old.to
            /\ \A d \in Channels \ {c} : assignedTo'[d] = assignedTo[d]
        BY <1>1, <2>1, <3>1
      <3>3. \A d \in Channels \ {c} : SliceStands(d)
        BY <2>0, <3>2 DEF SliceStands, Stale
      <3>4. \A r : Continues(r, "persist") => AtWorkOn(c, r)'
        BY <2>0, <3>2 DEF AtWorkOn, Saved, Stale
      <3>5. QED
        BY <1>1, <1>7, <2>0, <2>1, <3>2, <3>3, <3>4
    <2>2. CASE UNCHANGED assignedTo /\ Excepted(c)
      BY <1>1, <1>7, <1>9, <1>10, <2>0, <2>2
    <2>3. QED
      BY <2>0, <2>1, <2>2
  <1>19. CASE PersistClump(j)
    <2> DEFINE x == IF old.kind = "remove" THEN old.from ELSE old.to
    <2>0. /\ old.pc = "persist" /\ Step(j, "free") /\ SaveClump(listens, x, c)
          /\ UNCHANGED <<listens, follows, assignedTo, inProject, incident>>
      BY <1>0, <1>3, <1>19 DEF PersistClump
    <2>1. (x = IF old.kind = "remove" THEN old.from ELSE old.to) /\ x \in FleetAccounts
      BY <1>4
    <2> HIDE DEF x
    <2>2. /\ stored' \in Memory /\ unsaved' \subseteq Stales
          /\ \A b \in FleetAccounts :
                IF ClumpOf[b] = ClumpOf[x]
                THEN Stale(b, c)' \/ (c \in stored'[b] <=> c \in listens[b])
                ELSE (c \in stored'[b] <=> c \in stored[b]) /\ (Stale(b, c)' <=> Stale(b, c))
          /\ \A b \in FleetAccounts : \A d : d # c =>
                \/ (d \in stored'[b] <=> d \in stored[b]) /\ (Stale(b, d)' <=> Stale(b, d))
                \/ (d \in stored'[b] <=> d \in listens[b]) /\ ~Stale(b, d)'
      <3>1. PICK l \in Memory : l = listens
        BY <1>1
      <3>2. SaveClump(l, x, c)
        BY <2>0, <3>1
      <3>3. QED
        BY <1>1, <2>1, <3>1, <3>2, Saving
    <2>3. \A d \in Channels \ {c} : SliceStands(d)
      BY <2>0, <2>2 DEF SliceStands
    <2>4. ASSUME AtWorkOn(c, old) PROVE Agree(c)'
      <3>1. \A b \in FleetAccounts : (c \in listens[b] <=> b = old.to) /\ assignedTo[c] = old.to
        BY <2>0, <2>4 DEF AtWorkOn
      <3>2. \A b \in FleetAccounts : Stale(b, c)' \/ (c \in stored'[b] <=> b = old.to)
        <4> TAKE b \in FleetAccounts
        <4>1. CASE ClumpOf[b] = ClumpOf[x]
          BY <2>2, <3>1, <4>1
        <4>2. CASE ClumpOf[b] # ClumpOf[x]
          <5>1. (c \in stored'[b] <=> c \in stored[b]) /\ (Stale(b, c)' <=> Stale(b, c))
            BY <2>2, <4>2
          <5>2. Saved(b, c) => b \in {old.from, old.to}
            BY <2>4 DEF AtWorkOn
          <5>3. b # old.to
            BY <1>4, <2>1, <4>2, FleetAssumption
          <5>4. ~Saved(b, c)
            BY <1>4, <2>0, <2>1, <2>4, <4>2, <5>2, <5>3, FleetAssumption DEF AtWorkOn
          <5>5. QED
            BY <5>1, <5>3, <5>4 DEF Saved
        <4>3. QED
          BY <4>1, <4>2
      <3>3. \A b \in FleetAccounts : c \in listens[b] => c \in follows[b]
        BY <1>4, <2>4, <3>1, FleetAssumption DEF AtWorkOn
      <3>4. QED
        BY <2>0, <3>1, <3>2, <3>3 DEF Agree
    <2>5. QED
      BY <1>1, <1>8, <2>0, <2>2, <2>3, <2>4
  <1>20. QED
    BY <1>11, <1>12, <1>13, <1>14, <1>15, <1>16, <1>17, <1>18, <1>19 DEF JobStep

\* A task for c, the only one, is enqueued while c is at rest.
LEMMA EnqueueInv ==
    ASSUME FleetInv, NEW j \in Jobs, NEW kind \in {"add", "move", "remove"}, NEW c \in Channels,
           NEW from \in FleetAccounts \cup {Nobody}, NEW to \in FleetAccounts \cup {Nobody},
           EnqueueJob(j, kind, c, from, to), assignedTo[c] = from, from # to,
           kind = "add" <=> from = Nobody, kind = "remove" <=> to = Nobody,
           kind = "remove" => c \notin inProject
    PROVE  FleetInv'
  <1>0. /\ FleetTypeOK /\ job \in [Jobs -> Job] /\ incident \subseteq Channels
        /\ \A d \in Channels : ChannelInv(d)
    BY DEF FleetInv, FleetTypeOK
  <1>1. PICK r : r = [kind |-> kind, ch |-> c, from |-> from, to |-> to, pc |-> "queued"]
    OBVIOUS
  <1>2. /\ r \in Job /\ r.kind = kind /\ r.ch = c /\ r.from = from /\ r.to = to /\ r.pc = "queued"
        /\ JobShape(r)
    BY <1>1 DEF Job, JobShape
  <1>3. /\ job' = [job EXCEPT ![j] = r] /\ job[j] = NoJob
        /\ UNCHANGED <<listens, stored, follows, assignedTo, inProject, unsaved>>
        /\ incident' = IF \E i \in Jobs : job[i].ch = c THEN incident \cup {c} ELSE incident
    BY <1>1 DEF EnqueueJob
  <1>4. job'[j] = r /\ (\A i \in Jobs \ {j} : job'[i] = job[i]) /\ job' \in [Jobs -> Job]
    BY <1>0, <1>2, <1>3
  <1>5. FleetTypeOK'
    BY <1>0, <1>3, <1>4 DEF FleetTypeOK
  <1>6. (\A i \in Jobs : JobShape(job[i]))'
    <2>1. \A i \in Jobs : JobShape(job'[i])
      BY <1>2, <1>4 DEF FleetInv
    <2>2. QED
      BY <2>1 DEF JobShape, NoJob
  <1>7. ASSUME NEW d \in Channels, d # c PROVE ChannelInv(d)'
    <2>1. SliceStands(d)
      BY <1>3 DEF SliceStands, Stale
    <2>2. NoJob.ch = Nobody /\ d # Nobody
      BY FleetAssumption DEF NoJob
    <2>3. \A i \in Jobs : job'[i].ch = d \/ job[i].ch = d => job'[i] = job[i]
      BY <1>2, <1>3, <1>4, <1>7, <2>2
    <2>4. QED
      BY <1>3, <2>1, <2>3, UnconcernedStep
  <1>8. ChannelInv(c)'
    <2> SUFFICES ASSUME c \notin incident'
                 PROVE  /\ \A i, k \in Jobs : job'[i].ch = c /\ job'[k].ch = c => i = k
                        /\ \A i \in Jobs : job'[i].ch = c => AtWorkOn(c, job[i])'
                        /\ (\A i \in Jobs : job'[i].ch # c) => Agree(c)'
      BY DEF ChannelInv
    <2>1. c \notin incident /\ \A i \in Jobs : job[i].ch # c
      BY <1>3
    <2>2. Agree(c)
      BY <1>0, <2>1 DEF ChannelInv
    <2>3. \A i \in Jobs : job'[i].ch = c => i = j
      BY <1>4, <2>1
    <2>4. AtWorkOn(c, r)'
      BY <1>2, <1>3, <2>2 DEF Agree, AtWorkOn, Saved, Stale
    <2>5. QED
      BY <1>2, <1>4, <2>3, <2>4
  <1>9. QED
    BY <1>5, <1>6, <1>7, <1>8 DEF FleetInv

\* What the process remembers after a crash is what it had saved.
LEMMA CrashInv == FleetInv /\ FleetCrash => FleetInv'
  <1> SUFFICES ASSUME FleetInv, FleetCrash PROVE FleetInv'
    OBVIOUS
  <1>0. /\ FleetTypeOK /\ job \in [Jobs -> Job] /\ \A i \in Jobs : JobShape(job[i])
        /\ \A d \in Channels : ChannelInv(d)
    BY DEF FleetInv, FleetTypeOK
  <1>1. \A i \in Jobs : /\ job'[i] \in Job /\ JobShape(job'[i])
                        /\ job'[i].kind = job[i].kind /\ job'[i].ch = job[i].ch
                        /\ job'[i].from = job[i].from /\ job'[i].to = job[i].to
                        /\ job'[i].pc \in {"free", "queued"}
    <2> TAKE i \in Jobs
    <2>1. job[i] \in Job /\ JobShape(job[i])
      BY <1>0
    <2>2. CASE Running(i)
      <3>1. job'[i] = [job[i] EXCEPT !.pc = "queued"]
        BY <2>2 DEF FleetCrash
      <3>2. job[i] # NoJob
        BY <2>2 DEF Running, NoJob
      <3>3. /\ job'[i] \in Job
            /\ job'[i].kind = job[i].kind /\ job'[i].ch = job[i].ch
            /\ job'[i].from = job[i].from /\ job'[i].to = job[i].to /\ job'[i].pc = "queued"
        BY <2>1, <3>1 DEF Job
      <3>4. JobShape(job'[i])
        BY <2>1, <3>2, <3>3 DEF JobShape
      <3>5. QED
        BY <3>3, <3>4
    <2>3. CASE ~Running(i)
      BY <2>1, <2>3 DEF FleetCrash, Running
    <2>4. QED
      BY <2>2, <2>3
  <1>2. job' \in [Jobs -> Job]
    BY <1>1 DEF FleetCrash
  <1>3. FleetTypeOK'
    <2>1. {u[2] : u \in unsaved} \subseteq Channels
      BY <1>0 DEF FleetTypeOK
    <2>2. QED
      BY <1>0, <1>2, <2>1 DEF FleetCrash, FleetTypeOK
  <1>4. (\A i \in Jobs : JobShape(job[i]))'
    <2>1. \A i \in Jobs : JobShape(job'[i])
      BY <1>1
    <2>2. QED
      BY <2>1 DEF JobShape, NoJob
  <1>5. ASSUME NEW c \in Channels PROVE ChannelInv(c)'
    <2> SUFFICES ASSUME c \notin incident'
                 PROVE  /\ \A i, k \in Jobs : job'[i].ch = c /\ job'[k].ch = c => i = k
                        /\ \A i \in Jobs : job'[i].ch = c => AtWorkOn(c, job[i])'
                        /\ (\A i \in Jobs : job'[i].ch # c) => Agree(c)'
      BY DEF ChannelInv
    <2>1. /\ \A i, k \in Jobs : job[i].ch = c /\ job[k].ch = c => i = k
          /\ \A i \in Jobs : job[i].ch = c => AtWorkOn(c, job[i])
          /\ (\A i \in Jobs : job[i].ch # c) => Agree(c)
      BY <1>0 DEF ChannelInv, FleetCrash
    <2>2. /\ listens' = stored /\ UNCHANGED <<stored, follows, assignedTo, inProject>>
          /\ \A a \in FleetAccounts : ~Stale(a, c) /\ ~Stale(a, c)'
      BY DEF FleetCrash, Stale
    <2>3. ASSUME NEW i \in Jobs, job'[i].ch = c PROVE AtWorkOn(c, job[i])'
      <3>1. PICK old : old = job[i]
        OBVIOUS
      <3>2. PICK r : r = job'[i]
        OBVIOUS
      <3>3. AtWorkOn(c, old)
        BY <1>1, <2>1, <2>3, <3>1
      <3>4. r.kind = old.kind /\ r.from = old.from /\ r.to = old.to /\ r.pc \in {"free", "queued"}
        BY <1>1, <3>1, <3>2
      <3>5. AtWorkOn(c, r)'
        BY <2>2, <3>3, <3>4 DEF AtWorkOn, Saved, Stale
      <3>6. QED
        BY <3>2, <3>5
    <2>4. (\A i \in Jobs : job'[i].ch # c) => Agree(c)'
      BY <1>1, <2>1, <2>2 DEF Agree, Saved, Stale
    <2>5. QED
      BY <1>1, <2>1, <2>3, <2>4
  <1>6. QED
    BY <1>3, <1>4, <1>5 DEF FleetInv

\* A step that only widens incident, for every channel it concerns.
LEMMA OutsideInv ==
    ASSUME FleetInv, FleetTypeOK', UNCHANGED job,
           \A c \in Channels : c \in incident => c \in incident',
           \A c \in Channels : c \notin incident' => SliceStands(c)
    PROVE  FleetInv'
  <1>1. \A c \in Channels : ChannelInv(c)'
    <2> TAKE c \in Channels
    <2>1. CASE c \in incident'
      BY <2>1 DEF ChannelInv
    <2>2. CASE c \notin incident'
      BY <2>2, UnconcernedStep
    <2>3. QED
      BY <2>1, <2>2
  <1>2. (\A i \in Jobs : JobShape(job[i]))'
    BY DEF FleetInv, JobShape, NoJob
  <1>3. QED
    BY <1>1, <1>2 DEF FleetInv

\* The invariant, action by action.
LEMMA NextFleetInv == FleetInv /\ [FleetNext]_fleetVars => FleetInv'
  <1> SUFFICES ASSUME FleetInv, [FleetNext]_fleetVars PROVE FleetInv'
    OBVIOUS
  <1>0. /\ FleetTypeOK /\ assignedTo \in [Channels -> FleetAccounts \cup {Nobody}]
        /\ inProject \subseteq Channels /\ incident \subseteq Channels
    BY DEF FleetInv, FleetTypeOK
  <1>1. CASE \E j \in Jobs : JobStep(j)
    BY <1>1, JobStepInv
  <1>2. ASSUME NEW j \in Jobs, NEW c \in Channels, NEW a \in FleetAccounts, EnqueueAdd(j, c, a)
        PROVE  FleetInv'
    <2>1. EnqueueJob(j, "add", c, Nobody, a) /\ assignedTo[c] = Nobody
      BY <1>2 DEF EnqueueAdd
    <2>2. QED
      BY <2>1, EnqueueInv, FleetAssumption
  <1>3. ASSUME NEW j \in Jobs, NEW c \in Channels, NEW a \in FleetAccounts, EnqueueMove(j, c, a)
        PROVE  FleetInv'
    <2>1. EnqueueJob(j, "move", c, assignedTo[c], a) /\ assignedTo[c] \notin {Nobody, a}
      BY <1>3 DEF EnqueueMove
    <2>2. PICK b \in FleetAccounts \cup {Nobody} : b = assignedTo[c]
      BY <1>0
    <2>3. EnqueueJob(j, "move", c, b, a)
      BY <2>1, <2>2
    <2>4. QED
      BY <2>1, <2>2, <2>3, EnqueueInv, FleetAssumption
  <1>4. ASSUME NEW j \in Jobs, NEW c \in Channels, EnqueueRemove(j, c) PROVE FleetInv'
    <2>1. EnqueueJob(j, "remove", c, assignedTo[c], Nobody) /\ assignedTo[c] # Nobody /\ c \notin inProject
      BY <1>4 DEF EnqueueRemove
    <2>2. PICK b \in FleetAccounts \cup {Nobody} : b = assignedTo[c]
      BY <1>0
    <2>3. EnqueueJob(j, "remove", c, b, Nobody)
      BY <2>1, <2>2
    <2>4. QED
      BY <2>1, <2>2, <2>3, EnqueueInv, FleetAssumption
  <1>5. ASSUME NEW c \in Channels, ProjectChanges(c) PROVE FleetInv'
    <2>0. /\ inProject' = (inProject \ {c}) \cup ({c} \ inProject)
          /\ incident' = IF \E j \in Jobs : job[j].kind = "remove" /\ job[j].ch = c
                         THEN incident \cup {c} ELSE incident
          /\ UNCHANGED <<listens, stored, follows, assignedTo, job, unsaved>>
      BY <1>5 DEF ProjectChanges
    <2>1. FleetTypeOK'
      BY <1>0, <2>0 DEF FleetTypeOK
    <2>2. \A d \in Channels \ {c} : ChannelInv(d)'
      <3> TAKE d \in Channels \ {c}
      <3>1. SliceStands(d) /\ (d \in incident => d \in incident')
        BY <2>0 DEF SliceStands, Stale
      <3>2. QED
        BY <2>0, <3>1, UnconcernedStep
    <2>3. ChannelInv(c)'
      <3> SUFFICES ASSUME c \notin incident'
                   PROVE  /\ \A i, k \in Jobs : job'[i].ch = c /\ job'[k].ch = c => i = k
                          /\ \A i \in Jobs : job'[i].ch = c => AtWorkOn(c, job[i])'
                          /\ (\A i \in Jobs : job'[i].ch # c) => Agree(c)'
        BY DEF ChannelInv
      <3>1. c \notin incident /\ \A i \in Jobs : job[i].ch = c => job[i].kind # "remove"
        BY <2>0
      <3>2. /\ \A i, k \in Jobs : job[i].ch = c /\ job[k].ch = c => i = k
            /\ \A i \in Jobs : job[i].ch = c => AtWorkOn(c, job[i])
            /\ (\A i \in Jobs : job[i].ch # c) => Agree(c)
        BY <3>1 DEF FleetInv, ChannelInv
      <3>3. ASSUME NEW i \in Jobs, job'[i].ch = c PROVE AtWorkOn(c, job[i])'
        <4>1. PICK old : old = job[i]
          OBVIOUS
        <4>2. AtWorkOn(c, old) /\ old.kind # "remove"
          BY <2>0, <3>1, <3>2, <3>3, <4>1
        <4>3. AtWorkOn(c, old)'
          BY <2>0, <4>2 DEF AtWorkOn, Saved, Stale
        <4>4. QED
          BY <2>0, <4>1, <4>3
      <3>4. Agree(c) => Agree(c)'
        BY <2>0 DEF Agree, Saved, Stale
      <3>5. QED
        BY <2>0, <3>2, <3>3, <3>4
    <2>4. (\A i \in Jobs : JobShape(job[i]))'
      BY <2>0 DEF FleetInv, JobShape, NoJob
    <2>5. QED
      BY <2>1, <2>2, <2>3, <2>4 DEF FleetInv
  <1>6. ASSUME NEW a \in FleetAccounts, AccountUnauthorized(a) PROVE FleetInv'
    <2>0. /\ assignedTo' = [c \in Channels |-> IF assignedTo[c] = a THEN Nobody ELSE assignedTo[c]]
          /\ incident' = incident \cup {c \in Channels : assignedTo[c] = a}
          /\ UNCHANGED <<listens, stored, follows, inProject, job, unsaved>>
      BY <1>6 DEF AccountUnauthorized
    <2>1. FleetTypeOK'
      BY <1>0, <2>0 DEF FleetTypeOK
    <2>2. \A c \in Channels : c \notin incident' => SliceStands(c)
      BY <2>0 DEF SliceStands, Stale
    <2>3. QED
      BY <2>0, <2>1, <2>2, OutsideInv
  <1>7. CASE FleetCrash
    BY <1>7, CrashInv
  <1>8. CASE UNCHANGED fleetVars
    <2>1. FleetTypeOK'
      BY <1>0, <1>8 DEF fleetVars, FleetTypeOK
    <2>2. \A c \in Channels : SliceStands(c)
      BY <1>8 DEF fleetVars, SliceStands, Stale
    <2>3. QED
      BY <1>8, <2>1, <2>2, OutsideInv DEF fleetVars
  <1>9. QED
    BY <1>1, <1>2, <1>3, <1>4, <1>5, <1>6, <1>7, <1>8 DEF FleetNext

\* It holds when the process starts with what was saved.
LEMMA InitFleetInv == FleetInit => FleetInv
  <1> SUFFICES ASSUME FleetInit PROVE FleetInv
    OBVIOUS
  <1>1. NoJob \in Job /\ NoJob.ch = Nobody
    BY DEF NoJob, Job
  <1>2. FleetTypeOK
    BY <1>1 DEF FleetInit, FleetTypeOK
  <1>3. \A j \in Jobs : JobShape(job[j]) /\ job[j].ch = Nobody
    BY <1>1 DEF FleetInit, JobShape
  <1>4. \A c \in Channels : Agree(c)
    BY FleetAssumption DEF FleetInit, Agree, Stale
  <1>5. QED
    BY <1>2, <1>3, <1>4, FleetAssumption DEF FleetInv, ChannelInv

\* The inductive invariant: whatever is still to be done for a channel, a task has it
\* in hand, and only the accounts of that task have to do with the channel.
THEOREM FleetInvariant == FleetSpec => []FleetInv
  BY InitFleetInv, NextFleetInv, PTL DEF FleetSpec

\* For any accounts, clumps, channels and number of tasks at a time, the four places
\* agree on a channel once its task is done, through failed attempts, crashes and saves
\* that failed; but for the channels FleetAgrees excepts, a write left out among them.
THEOREM PlacesOfFleetAgree == FleetSpec => []FleetAgrees
  <1>1. FleetInv => FleetAgrees
    <2> SUFFICES ASSUME FleetInv, NEW c \in Channels \ incident, \A j \in Jobs : job[j].ch # c
                 PROVE  /\ HearersOf(c) = {assignedTo[c]} \ {Nobody}
                        /\ \A a \in FleetAccounts :
                              <<ClumpOf[a], c>> \notin unsaved => (c \in listens[a] <=> c \in stored[a])
                        /\ \A a \in HearersOf(c) : c \in follows[a]
      BY DEF FleetAgrees
    <2>1. Agree(c) /\ assignedTo[c] \in FleetAccounts \cup {Nobody}
      BY DEF FleetInv, ChannelInv, FleetTypeOK
    <2>2. QED
      BY <2>1, FleetAssumption DEF Agree, HearersOf, Stale
  <1>2. QED
    BY <1>1, FleetInvariant, PTL

\* No step of a move between clumps leaves its channel without a listener.
THEOREM CrossMovesKeepHearing == FleetSpec => CrossMoveKeepsHearing
  <1> DEFINE Keeps == \A j \in Jobs, c \in Channels :
          job[j].kind = "move" /\ job[j].ch = c /\ c \notin incident' /\ ~SameClump(j) /\ ~FleetCrash
             => (HearersOf(c) # {} => HearersOf(c)' # {})
  <1>1. FleetInv /\ FleetInv' /\ [FleetNext]_fleetVars => [Keeps]_fleetVars
    <2> SUFFICES ASSUME FleetInv, FleetInv', [FleetNext]_fleetVars, NEW j \in Jobs, NEW c \in Channels,
                        job[j].kind = "move", job[j].ch = c, c \notin incident', ~SameClump(j),
                        ~FleetCrash, HearersOf(c) # {}
                 PROVE  HearersOf(c)' # {}
      OBVIOUS
    <2>0. /\ listens \in Memory /\ follows \in Memory /\ job \in [Jobs -> Job]
          /\ incident \subseteq Channels
          /\ \A i \in Jobs : JobShape(job[i])
      BY DEF FleetInv, FleetTypeOK, Memory
    <2>1. PICK old : old = job[j]
      OBVIOUS
    <2>2. /\ old.kind = "move" /\ old.ch = c /\ ClumpOf[old.from] # ClumpOf[old.to]
          /\ old.from \in FleetAccounts /\ old.to \in FleetAccounts
      BY <2>0, <2>1 DEF SameClump, JobShape, NoJob
    <2>3. UNCHANGED listens => HearersOf(c)' # {}
      BY DEF HearersOf
    <2>4. ASSUME Step(j, "pg"), c \notin incident' PROVE HearersOf(c)' # {}
      <3>1. PICK r : /\ job' = [job EXCEPT ![j] = r] /\ r.ch = c /\ r.to = old.to /\ r.pc = "pg"
        BY <2>0, <2>1, <2>2, <2>4, StepTo
      <3>2. AtWorkOn(c, r)'
        <4>1. job'[j] = r
          BY <2>0, <3>1
        <4>2. (ChannelInv(c))'
          BY DEF FleetInv
        <4>3. QED
          BY <2>4, <3>1, <4>1, <4>2 DEF ChannelInv
      <3>3. c \in listens'[old.to]
        BY <2>2, <3>1, <3>2 DEF AtWorkOn, Saved, Stale
      <3>4. QED
        BY <2>2, <3>3 DEF HearersOf
    <2>5. ASSUME NEW i \in Jobs, JobStep(i) PROVE HearersOf(c)' # {}
      <3>1. c \notin incident
        <4>1. \A l, agreed : Releases(i, l, agreed) => incident \subseteq incident'
          BY DEF Releases, Excepted
        <4>2. QED
          BY <2>5, <4>1
             DEF JobStep, BeginAdd, BeginMoveWithin, BeginMoveAcross, BeginRemove, JoinsFirst, LetGo,
                 JoinedBy, LeftBy, AttemptFails, Fails, WriteAssignment, PersistClump, Excepted
      <3>2. i # j => job[i].ch # c
        BY <3>1 DEF FleetInv, ChannelInv
      <3>3. CASE i = j
        <4>1. CASE BeginMoveAcross(j)
          <5>1. UNCHANGED listens \/ Step(j, "pg")
            BY <4>1 DEF BeginMoveAcross, JoinsFirst
          <5>2. QED
            BY <2>3, <2>4, <5>1
        <4>2. CASE JoinedBy(j)
          BY <2>4, <4>2 DEF JoinedBy
        <4>3. ~BeginMoveWithin(j) /\ ~LeftBy(j)
          <5>1. LeftBy(j) => old.pc = "leave"
            BY <2>1, Zenon DEF LeftBy
          <5>2. QED
            BY <2>0, <2>1, <2>2, <5>1 DEF BeginMoveWithin, JobShape, NoJob
        <4>4. CASE \/ BeginAdd(j) \/ BeginRemove(j) \/ AttemptFails(j) \/ WriteAssignment(j)
                  \/ PersistClump(j)
          <5>1. UNCHANGED listens
            BY <4>4 DEF BeginAdd, BeginRemove, AttemptFails, WriteAssignment, PersistClump
          <5>2. QED
            BY <2>3, <5>1
        <4>5. QED
          BY <2>5, <3>3, <4>1, <4>2, <4>3, <4>4 DEF JobStep
      <3>4. CASE i # j
        <4>1. PICK d : d = job[i].ch /\ d # c
          BY <3>2, <3>4
        <4>2. \A a \in FleetAccounts : c \in listens[a] => c \in listens'[a]
          <5>1. CASE BeginMoveWithin(i)
            BY <2>0, <4>1, <5>1 DEF BeginMoveWithin, Memory
          <5>2. ASSUME NEW l \in Memory, NEW a, NEW x, x # c
                PROVE  \A b \in FleetAccounts : c \in Stripped(l, a, x)[b] <=> c \in l[b]
            BY <5>2, Removal
          <5>3. CASE BeginMoveAcross(i)
            <6>1. UNCHANGED listens \/ listens' = Stripped(listens, job[i].from, d)
              BY <4>1, <5>3 DEF BeginMoveAcross, JoinsFirst, LetGo, Releases
            <6>2. QED
              BY <2>0, <4>1, <5>2, <6>1
          <5>4. CASE JoinedBy(i)
            <6> DEFINE heard == [listens EXCEPT ![job[i].to] = @ \cup {d}]
            <6>1. job[i].to \in FleetAccounts /\ d \in Channels
              BY <2>0, <4>1, <5>4 DEF JoinedBy, JobShape, NoJob
            <6>2. heard \in Memory /\ \A a \in FleetAccounts : c \in listens[a] => c \in heard[a]
              BY <2>0, <4>1, <6>1 DEF Memory
            <6>3. listens' = heard \/ listens' = Stripped(heard, job[i].from, d)
              BY <4>1, <5>4 DEF JoinedBy, LetGo, Releases
            <6> HIDE DEF heard
            <6>4. QED
              BY <4>1, <5>2, <6>2, <6>3
          <5>5. CASE LeftBy(i)
            <6>1. UNCHANGED listens \/ listens' = Stripped(listens, job[i].from, d)
              BY <4>1, <5>5 DEF LeftBy, Releases
            <6>2. QED
              BY <2>0, <4>1, <5>2, <6>1
          <5>6. QED
            BY <2>5, <5>1, <5>3, <5>4, <5>5
               DEF JobStep, BeginAdd, BeginRemove, AttemptFails, WriteAssignment, PersistClump
        <4>3. QED
          BY <4>2 DEF HearersOf
      <3>5. QED
        BY <3>3, <3>4
    <2>6. QED
      BY <2>3, <2>5 DEF FleetNext, fleetVars, EnqueueAdd, EnqueueMove, EnqueueRemove, EnqueueJob,
                        ProjectChanges, AccountUnauthorized
  <1>2. QED
    BY <1>1, FleetInvariant, PTL DEF FleetSpec, CrossMoveKeepsHearing

-----------------------------------------------------------------------------
\* Balancer: the counts and the plan of one tick.

BalancerSpec == BalancerInit /\ [][BalancerNext]_balancerVars

\* min() of a bucket is one of its channels.
LEMMA MinOfBucket ==
    ASSUME NEW S \in SUBSET Movables, S # {}
    PROVE  Min(S) \in S
  <1> DEFINE id == [x \in S |-> x]
  <1>1. IsFiniteSet(S) /\ S \subseteq Int
    BY FS_Subset, BalancerAssumption
  <1>2. \A x \in S : id[x] \in Int
    BY <1>1
  <1>3. \E x \in S : \A y \in S : id[x] <= id[y]
    <2> HIDE DEF id
    <2> QED
      BY <1>1, <1>2, LeastElement
  <1>4. \E x \in S : \A y \in S : x <= y
    BY <1>3
  <1>5. QED
    BY <1>4 DEF Min

Tick == [at : {"off", "count", "plan", "over"}, dead : SUBSET Fleetmen,
         counts : [Fleetmen -> Int], total : Nat, read : SUBSET Fleetmen,
         left : [Fleetmen -> SUBSET Movables], plan : SUBSET Moves,
         calm : BOOLEAN, full : BOOLEAN]

TickInv ==
    /\ home \in [Movables -> Fleetmen] /\ dead \subseteq Fleetmen /\ moves \subseteq Moves
    /\ changes \in 0 .. MaxChanges
    /\ tick \in Tick

\* A tick that plans, in a fleet that is as the tick has found it.
Undisturbed == tick.calm /\ tick.at \in {"plan", "over"}

\* What is left of a list has not been planned; what is gone from it has.
ListsAreTrue ==
    /\ \A a \in tick.read : tick.left[a] \subseteq FirstOf(a)
    /\ \A a \in tick.read : \A c \in FirstOf(a) \ tick.left[a] : \E m \in tick.plan : m.ch = c
    /\ \A m \in tick.plan : /\ home[m.ch] = m.from /\ m.from \in tick.read
                            /\ m.ch \notin tick.left[m.from] /\ m.to \in LiveAccounts

Once == \A m, n \in tick.plan : m.ch = n.ch => m = n

\* The count of a dead account whose list is not cut short is what its list has left.
CountsAreTrue ==
    LiveAccounts # {} =>
       \A a \in tick.dead : Cardinality(Owned(a)) <= BucketLimit =>
          tick.counts[a] = Cardinality(Bucket(a))

NothingLeft ==
    tick.at = "over" /\ ~tick.full /\ LiveAccounts # {} => \A a \in tick.dead : tick.counts[a] <= 0

BalancerInv ==
    /\ TickInv
    /\ tick.at \in {"off", "count"} => tick.read = {} /\ tick.plan = {}
    /\ tick.at = "plan" => LiveAccounts # {}
    /\ Undisturbed => ListsAreTrue /\ Once /\ CountsAreTrue /\ NothingLeft

\* A list that is not cut short names all channels of its account.
LEMMA WholeList ==
    ASSUME NEW a, home \in [Movables -> Fleetmen]
    PROVE  /\ FirstOf(a) \subseteq Owned(a) /\ Owned(a) \subseteq Movables /\ IsFiniteSet(Owned(a))
           /\ Cardinality(Owned(a)) <= BucketLimit => FirstOf(a) = Owned(a)
  <1>1. FirstOf(a) \subseteq Owned(a) /\ Owned(a) \subseteq Movables
    BY DEF FirstOf, Owned
  <1>2. IsFiniteSet(Owned(a)) /\ Cardinality(Owned(a)) \in Nat
    BY <1>1, BalancerAssumption, FS_Subset, FS_CardinalityType
  <1>3. ASSUME Cardinality(Owned(a)) <= BucketLimit, NEW c \in Owned(a)
        PROVE  c \in FirstOf(a)
    <2> DEFINE D == {d \in Owned(a) : d <= c}
    <2>1. D \subseteq Owned(a)
      OBVIOUS
    <2>2. Cardinality(D) <= Cardinality(Owned(a)) /\ Cardinality(D) \in Nat
      BY <1>2, <2>1, FS_Subset, FS_CardinalityType
    <2>3. Cardinality(D) <= BucketLimit
      BY <1>2, <1>3, <2>2, BalancerAssumption
    <2>4. QED
      BY <1>3, <2>3 DEF FirstOf
  <1>4. QED
    BY <1>1, <1>2, <1>3

\* Steps that leave home, and but for its phase the tick, as they were.
LEMMA BucketsStand ==
    ASSUME UNCHANGED home, tick'.read = tick.read, tick'.left = tick.left
    PROVE  \A a \in Fleetmen : FirstOf(a)' = FirstOf(a) /\ Bucket(a)' = Bucket(a) /\ Owned(a)' = Owned(a)
  BY DEF FirstOf, Bucket, Owned

\* Before the first tick.
LEMMA InitBalancerInv == BalancerInit => BalancerInv
  <1> SUFFICES ASSUME BalancerInit PROVE BalancerInv
    OBVIOUS
  <1>1. NoTick \in Tick
    BY DEF NoTick, Tick, Zero
  <1>2. NoTick.at = "off" /\ NoTick.read = {} /\ NoTick.plan = {}
    BY DEF NoTick
  <1>3. changes \in 0 .. MaxChanges
    BY BalancerAssumption DEF BalancerInit
  <1>4. QED
    BY <1>1, <1>2, <1>3 DEF BalancerInit, BalancerInv, TickInv, Undisturbed

\* A dead account is drained before anything else, and only to a live one.
LEMMA PairOf ==
    ASSUME NEW s, NEW t, <<s, t>> \in Pairs, tick \in Tick
    PROVE  /\ s \in Fleetmen /\ t \in LiveAccounts
           /\ s \in tick.dead \/ ToDrain = {}
  <1>1. CASE ToDrain # {}
    BY <1>1 DEF Pairs, ToDrain, Heaviest, Lightest, LiveAccounts, Tick
  <1>2. CASE ToDrain = {}
    BY <1>2 DEF Pairs, ToDrain, Heaviest, Lightest, LiveAccounts, Tick
  <1>3. QED
    BY <1>1, <1>2

\* The loop ends when no dead account is left to drain.
LEMMA LoopEnds ==
    ASSUME tick \in Tick, LiveAccounts # {}, Pairs = {}
    PROVE  \A a \in tick.dead : tick.counts[a] <= 0
  <1> SUFFICES ASSUME ToDrain # {} PROVE FALSE
    BY DEF ToDrain, Tick
  <1> DEFINE neg == [a \in Fleetmen |-> -tick.counts[a]]
  <1>1. /\ IsFiniteSet(LiveAccounts) /\ IsFiniteSet(ToDrain)
        /\ LiveAccounts \subseteq Fleetmen /\ ToDrain \subseteq Fleetmen
    BY BalancerAssumption, FS_Subset DEF LiveAccounts, ToDrain, Tick
  <1>2. \A a \in Fleetmen : tick.counts[a] \in Int
    BY DEF Tick
  <1>3. \A a \in Fleetmen : neg[a] = -tick.counts[a] /\ neg[a] \in Int
    BY <1>2
  <1> HIDE DEF neg
  <1>4. PICK s \in ToDrain : \A b \in ToDrain : neg[s] <= neg[b]
    BY <1>1, <1>3, LeastElement
  <1>5. s \in Heaviest(ToDrain)
    BY <1>1, <1>2, <1>3, <1>4 DEF Heaviest
  <1> DEFINE c == tick.counts
  <1>6. \E t \in LiveAccounts : \A b \in LiveAccounts : c[t] <= c[b]
    <2> HIDE DEF c
    <2>1. \A a \in LiveAccounts : c[a] \in Int
      BY <1>1, <1>2 DEF c
    <2>2. QED
      BY <1>1, <2>1, LeastElement
  <1>7. PICK t \in LiveAccounts : t \in Lightest(LiveAccounts)
    BY <1>6 DEF Lightest
  <1>8. <<s, t>> \in Pairs
    BY <1>5, <1>7 DEF Pairs
  <1>9. QED
    BY <1>8

\* The share that stands for a list that has run out.
LEMMA LowInt ==
    ASSUME tick \in Tick, LiveAccounts # {}
    PROVE  Low \in Int
  <1>1. Cardinality(LiveAccounts) \in Nat /\ Cardinality(LiveAccounts) # 0
    BY BalancerAssumption, FS_Subset, FS_CardinalityType, FS_EmptySet DEF LiveAccounts
  <1> DEFINE n == Cardinality(LiveAccounts)
  <1>2. tick.total \in Nat
    BY DEF Tick
  <1>3. n \in Nat /\ n > 0
    BY <1>1
  <1> HIDE DEF n
  <1>4. (95 * tick.total) \div (100 * n) \in Int
    BY <1>2, <1>3
  <1>5. QED
    BY <1>4 DEF Low, n

\* A round that finds the list of s empty, or that moves its first channel.
LEMMA RoundFacts ==
    ASSUME BalancerInv, NEW s \in Fleetmen, NEW t \in Fleetmen, PlanMove(s, t)
    PROVE  /\ tick \in Tick /\ tick.at = "plan" /\ LiveAccounts # {}
           /\ UNCHANGED <<home, dead, changes>> /\ home \in [Movables -> Fleetmen]
           /\ t \in LiveAccounts /\ (s \in tick.dead => s # t)
           /\ \A a : FirstOf(a)' = FirstOf(a) /\ Owned(a)' = Owned(a)
           /\ Bucket(s) \subseteq Movables
  <1>0. /\ tick \in Tick /\ tick.at = "plan" /\ LiveAccounts # {} /\ <<s, t>> \in Pairs
        /\ UNCHANGED <<home, dead, changes>> /\ home \in [Movables -> Fleetmen]
    BY DEF BalancerInv, TickInv, PlanMove
  <1>1. t \in LiveAccounts /\ (s \in tick.dead => s # t)
    BY <1>0, PairOf DEF LiveAccounts
  <1>2. \A a : FirstOf(a)' = FirstOf(a) /\ Owned(a)' = Owned(a)
    BY <1>0 DEF FirstOf, Owned
  <1>3. FirstOf(s) \subseteq Movables
    BY <1>0, WholeList
  <1>4. Bucket(s) \subseteq Movables
    BY <1>0, <1>3 DEF Bucket, Tick
  <1>5. QED
    BY <1>0, <1>1, <1>2, <1>4

\* The list has run out: the count of s is set to what stands for it.
LEMMA EmptyRound ==
    ASSUME BalancerInv, NEW s \in Fleetmen, NEW t \in Fleetmen, PlanMove(s, t), Bucket(s) = {}
    PROVE  BalancerInv'
  <1> DEFINE n == IF s \in tick.dead THEN 0 ELSE Low
  <1>1. /\ tick' = [tick EXCEPT !.read = @ \cup {s}, !.left[s] = {}, !.counts[s] = n]
        /\ UNCHANGED moves
    BY DEF PlanMove
  <1>2. n \in Int
    BY RoundFacts, LowInt
  <1> HIDE DEF n
  <1>3. /\ tick' \in Tick /\ tick'.at = tick.at /\ tick'.dead = tick.dead /\ tick'.plan = tick.plan
        /\ tick'.calm = tick.calm /\ tick'.full = tick.full /\ tick'.read = tick.read \cup {s}
        /\ tick'.left = [tick.left EXCEPT ![s] = {}]
        /\ tick'.counts = [tick.counts EXCEPT ![s] = n]
    BY <1>1, <1>2, RoundFacts DEF Tick
  <1>4. \A a \in Fleetmen : Bucket(a)' = Bucket(a)
    <2> TAKE a \in Fleetmen
    <2>1. FirstOf(a)' = FirstOf(a) /\ tick.left \in [Fleetmen -> SUBSET Movables]
      BY RoundFacts DEF Tick
    <2>2. CASE a = s
      BY <1>3, <2>1, <2>2 DEF Bucket
    <2>3. CASE a # s
      BY <1>3, <2>1, <2>3 DEF Bucket
    <2>4. QED
      BY <2>2, <2>3
  <1>5. LiveAccounts' = LiveAccounts
    BY <1>3 DEF LiveAccounts
  <1>6. ASSUME Undisturbed' PROVE ListsAreTrue' /\ Once' /\ CountsAreTrue' /\ NothingLeft'
    <2>0. ListsAreTrue /\ Once /\ CountsAreTrue /\ tick.left \in [Fleetmen -> SUBSET Movables]
            /\ tick.counts \in [Fleetmen -> Int] /\ tick.dead \subseteq Fleetmen /\ tick.read \subseteq Fleetmen
      BY <1>3, <1>6, RoundFacts DEF BalancerInv, Undisturbed, Tick
    <2>1. \A a \in tick'.read : tick'.left[a] \subseteq FirstOf(a)
      BY <1>3, <2>0 DEF ListsAreTrue
    <2>2. \A a \in tick'.read : \A c \in FirstOf(a) \ tick'.left[a] : \E m \in tick'.plan : m.ch = c
      <3> SUFFICES ASSUME NEW a \in tick'.read, NEW c \in FirstOf(a) \ tick'.left[a]
                   PROVE  a \in tick.read /\ c \notin tick.left[a]
        BY <1>3, <2>0 DEF ListsAreTrue
      <3>1. CASE a # s
        BY <1>3, <2>0, <3>1
      <3>2. CASE a = s
        BY <3>2 DEF Bucket
      <3>3. QED
        BY <3>1, <3>2
    <2>3. \A m \in tick'.plan : /\ home[m.ch] = m.from /\ m.from \in tick'.read
                                /\ m.ch \notin tick'.left[m.from] /\ m.to \in LiveAccounts
      BY <1>3, <2>0 DEF ListsAreTrue
    <2>4. ListsAreTrue'
      BY <1>5, <2>1, <2>2, <2>3, RoundFacts DEF ListsAreTrue
    <2>5. Once'
      BY <1>3, <2>0 DEF Once
    <2>6. CountsAreTrue'
      <3> SUFFICES ASSUME NEW a \in tick.dead, Cardinality(Owned(a)) <= BucketLimit
                   PROVE  tick'.counts[a] = Cardinality(Bucket(a))
        BY <1>3, <1>4, <2>0, RoundFacts DEF CountsAreTrue
      <3>1. CASE a # s
        BY <1>3, <2>0, <3>1, RoundFacts DEF CountsAreTrue
      <3>2. CASE a = s
        BY <1>3, <2>0, <3>2, FS_EmptySet DEF n
      <3>3. QED
        BY <3>1, <3>2
    <2>7. QED
      BY <1>3, <2>4, <2>5, <2>6, RoundFacts DEF NothingLeft
  <1>7. TickInv'
    BY <1>1, <1>3, RoundFacts DEF BalancerInv, TickInv
  <1>8. QED
    BY <1>3, <1>5, <1>6, <1>7, RoundFacts DEF BalancerInv

\* The queue has no room: the tick ends.
LEMMA FullRound ==
    ASSUME BalancerInv, NEW s \in Fleetmen, NEW t \in Fleetmen, PlanMove(s, t),
           tick' = [tick EXCEPT !.at = "over", !.full = TRUE], UNCHANGED moves
    PROVE  BalancerInv'
  <1>1. /\ tick' \in Tick /\ tick'.at = "over" /\ tick'.dead = tick.dead /\ tick'.plan = tick.plan
        /\ tick'.calm = tick.calm /\ tick'.full /\ tick'.read = tick.read
        /\ tick'.left = tick.left /\ tick'.counts = tick.counts
    BY RoundFacts DEF Tick
  <1>2. \A a \in Fleetmen : Bucket(a)' = Bucket(a)
    BY <1>1, RoundFacts DEF Bucket
  <1>3. LiveAccounts' = LiveAccounts
    BY <1>1 DEF LiveAccounts
  <1>4. ASSUME Undisturbed' PROVE ListsAreTrue' /\ Once' /\ CountsAreTrue' /\ NothingLeft'
    <2>1. ListsAreTrue /\ Once /\ CountsAreTrue /\ tick.dead \subseteq Fleetmen
      BY <1>1, <1>4, RoundFacts DEF BalancerInv, Undisturbed, Tick
    <2>2. ListsAreTrue' /\ Once'
      BY <1>1, <1>3, <2>1, RoundFacts DEF ListsAreTrue, Once
    <2>3. CountsAreTrue'
      BY <1>1, <1>2, <1>3, <2>1, RoundFacts DEF CountsAreTrue
    <2>4. QED
      BY <1>1, <2>2, <2>3 DEF NothingLeft
  <1>5. TickInv'
    BY <1>1, RoundFacts DEF BalancerInv, TickInv
  <1>6. QED
    BY <1>1, <1>4, <1>5 DEF BalancerInv

\* A move is planned, and counted.
LEMMA MoveRound ==
    ASSUME BalancerInv, NEW s \in Fleetmen, NEW t \in Fleetmen, PlanMove(s, t), Bucket(s) # {},
           ~(Cardinality(moves) >= QueueRoom)
    PROVE  BalancerInv'
  <1> DEFINE c == Min(Bucket(s))
             m == [ch |-> c, from |-> s, to |-> t]
  <1>1. /\ tick' = [tick EXCEPT !.read = @ \cup {s}, !.left[s] = Bucket(s) \ {c},
                                !.counts = Shifted(s, t), !.plan = @ \cup {m}]
        /\ moves' \in {moves, moves \cup {m}}
    BY DEF PlanMove
  <1>2. c \in Bucket(s) /\ c \in Movables
    BY RoundFacts, MinOfBucket
  <1> HIDE DEF c
  <1>3. m \in Moves /\ m.ch = c /\ m.from = s /\ m.to = t
    BY <1>2 DEF Moves
  <1> HIDE DEF m
  <1>4. /\ tick' \in Tick /\ tick'.at = tick.at /\ tick'.dead = tick.dead
        /\ tick'.plan = tick.plan \cup {m}
        /\ tick'.calm = tick.calm /\ tick'.full = tick.full /\ tick'.read = tick.read \cup {s}
        /\ tick'.left = [tick.left EXCEPT ![s] = Bucket(s) \ {c}]
        /\ \A a \in Fleetmen \ {s, t} : tick'.counts[a] = tick.counts[a]
        /\ s # t => tick'.counts[s] = tick.counts[s] - 1
    <2> DEFINE left == [tick.left EXCEPT ![s] = Bucket(s) \ {c}]
               k2 == Shifted(s, t)
    <2>1. /\ tick.counts \in [Fleetmen -> Int] /\ tick.left \in [Fleetmen -> SUBSET Movables]
          /\ tick.plan \subseteq Moves /\ tick.read \subseteq Fleetmen /\ tick \in Tick
          /\ Bucket(s) \subseteq Movables
      BY RoundFacts DEF Tick
    <2>2. left \in [Fleetmen -> SUBSET Movables]
      BY <2>1
    <2>4. /\ k2 \in [Fleetmen -> Int]
          /\ \A a \in Fleetmen \ {s, t} : k2[a] = tick.counts[a]
          /\ s # t => k2[s] = tick.counts[s] - 1
      BY <2>1 DEF Shifted
    <2>5. tick' = [tick EXCEPT !.read = tick.read \cup {s}, !.left = left, !.counts = k2,
                               !.plan = tick.plan \cup {m}]
      BY <1>1
    <2> HIDE DEF left, k2
    <2>6. /\ tick' \in Tick /\ tick'.at = tick.at /\ tick'.dead = tick.dead
          /\ tick'.plan = tick.plan \cup {m} /\ tick'.read = tick.read \cup {s}
          /\ tick'.calm = tick.calm /\ tick'.full = tick.full
          /\ tick'.left = left /\ tick'.counts = k2
      BY <1>3, <2>1, <2>2, <2>4, <2>5 DEF Tick
    <2>7. QED
      BY <2>4, <2>6 DEF left
  <1>5. \A a \in Fleetmen : Bucket(a)' = IF a = s THEN Bucket(s) \ {c} ELSE Bucket(a)
    <2> TAKE a \in Fleetmen
    <2>1. FirstOf(a)' = FirstOf(a) /\ tick.left \in [Fleetmen -> SUBSET Movables]
      BY RoundFacts DEF Tick
    <2>2. CASE a = s
      BY <1>4, <2>1, <2>2 DEF Bucket
    <2>3. CASE a # s
      BY <1>4, <2>1, <2>3 DEF Bucket
    <2>4. QED
      BY <2>2, <2>3
  <1>6. LiveAccounts' = LiveAccounts
    BY <1>4 DEF LiveAccounts
  <1>7. ASSUME Undisturbed' PROVE ListsAreTrue' /\ Once' /\ CountsAreTrue' /\ NothingLeft'
    <2>0. ListsAreTrue /\ Once /\ CountsAreTrue /\ tick.left \in [Fleetmen -> SUBSET Movables]
            /\ tick.counts \in [Fleetmen -> Int] /\ tick.dead \subseteq Fleetmen /\ tick.read \subseteq Fleetmen
      BY <1>4, <1>7, RoundFacts DEF BalancerInv, Undisturbed, Tick
    <2>1. Bucket(s) \subseteq FirstOf(s) /\ (s \in tick.read => Bucket(s) = tick.left[s])
            /\ (s \notin tick.read => Bucket(s) = FirstOf(s))
      BY <2>0 DEF Bucket, ListsAreTrue
    <2>2. home[c] = s
      BY <1>2, <2>1, RoundFacts, WholeList DEF Owned
    <2>3. \A n \in tick.plan : n.ch # c
      BY <1>2, <2>0, <2>1, <2>2 DEF ListsAreTrue
    <2>4. \A a \in tick'.read : tick'.left[a] \subseteq FirstOf(a)
      BY <1>4, <2>0, <2>1 DEF ListsAreTrue
    <2>5. \A a \in tick'.read : \A x \in FirstOf(a) \ tick'.left[a] : \E n \in tick'.plan : n.ch = x
      <3> SUFFICES ASSUME NEW a \in tick'.read, NEW x \in FirstOf(a) \ tick'.left[a]
                   PROVE  \E n \in tick'.plan : n.ch = x
        OBVIOUS
      <3>1. CASE a = s /\ x = c
        BY <1>3, <1>4, <3>1
      <3>2. CASE ~(a = s /\ x = c)
        <4>1. a \in tick.read /\ x \notin tick.left[a]
          BY <1>4, <2>0, <2>1, <3>2
        <4>2. QED
          BY <1>4, <2>0, <4>1 DEF ListsAreTrue
      <3>3. QED
        BY <3>1, <3>2
    <2>6. \A n \in tick'.plan : /\ home[n.ch] = n.from /\ n.from \in tick'.read
                                /\ n.ch \notin tick'.left[n.from] /\ n.to \in LiveAccounts
      <3>1. ASSUME NEW n \in tick.plan
            PROVE  /\ home[n.ch] = n.from /\ n.from \in tick'.read
                   /\ n.ch \notin tick'.left[n.from] /\ n.to \in LiveAccounts
        BY <1>4, <2>0, <2>1, <3>1 DEF ListsAreTrue
      <3>2. home[m.ch] = m.from /\ m.from \in tick'.read /\ m.ch \notin tick'.left[m.from]
              /\ m.to \in LiveAccounts
        BY <1>3, <1>4, <2>0, <2>2, RoundFacts
      <3>3. QED
        BY <1>4, <3>1, <3>2
    <2>7. ListsAreTrue'
      BY <1>6, <2>4, <2>5, <2>6, RoundFacts DEF ListsAreTrue
    <2>8. Once'
      BY <1>3, <1>4, <2>0, <2>3 DEF Once
    <2>9. CountsAreTrue'
      <3> SUFFICES ASSUME NEW a \in tick.dead, Cardinality(Owned(a)) <= BucketLimit
                   PROVE  tick'.counts[a] = Cardinality(Bucket(a)')
        BY <1>4, RoundFacts DEF CountsAreTrue
      <3>0. tick.counts[a] = Cardinality(Bucket(a)) /\ a # t /\ a \in Fleetmen
        BY <2>0, RoundFacts DEF CountsAreTrue, LiveAccounts
      <3>1. CASE a # s
        BY <1>4, <1>5, <3>0, <3>1
      <3>2. CASE a = s
        <4>1. IsFiniteSet(Bucket(s))
          BY RoundFacts, FS_Subset, BalancerAssumption
        <4>2. Cardinality(Bucket(s) \ {c}) = Cardinality(Bucket(s)) - 1
          BY <1>2, <4>1, FS_RemoveElement
        <4>3. QED
          BY <1>4, <1>5, <3>0, <3>2, <4>2
      <3>3. QED
        BY <3>1, <3>2
    <2>10. QED
      BY <1>4, <2>7, <2>8, <2>9, RoundFacts DEF NothingLeft
  <1>8. TickInv'
    BY <1>1, <1>3, <1>4, RoundFacts DEF BalancerInv, TickInv
  <1>9. QED
    BY <1>4, <1>6, <1>7, <1>8, RoundFacts DEF BalancerInv

\* The invariant, action by action.
LEMMA NextBalancerInv == BalancerInv /\ [BalancerNext]_balancerVars => BalancerInv'
  <1> SUFFICES ASSUME BalancerInv, [BalancerNext]_balancerVars PROVE BalancerInv'
    OBVIOUS
  <1>0. /\ tick \in Tick /\ home \in [Movables -> Fleetmen] /\ dead \subseteq Fleetmen
        /\ moves \subseteq Moves /\ changes \in 0 .. MaxChanges
    BY DEF BalancerInv, TickInv
  <1>1. ASSUME NEW s \in Fleetmen, NEW t \in Fleetmen, PlanMove(s, t) PROVE BalancerInv'
    <2>1. CASE Bucket(s) = {}
      BY <1>1, <2>1, EmptyRound
    <2>2. CASE Bucket(s) # {} /\ Cardinality(moves) >= QueueRoom
      <3>1. tick' = [tick EXCEPT !.at = "over", !.full = TRUE] /\ UNCHANGED moves
        BY <1>1, <2>2 DEF PlanMove
      <3>2. QED
        BY <1>1, <3>1, FullRound
    <2>3. CASE Bucket(s) # {} /\ ~(Cardinality(moves) >= QueueRoom)
      BY <1>1, <2>3, MoveRound
    <2>4. QED
      BY <2>1, <2>2, <2>3
  <1>2. CASE StartTick
    <2>1. /\ tick' = [NoTick EXCEPT !.at = "count", !.dead = dead]
          /\ UNCHANGED <<home, dead, moves, changes>>
      BY <1>2 DEF StartTick
    <2>a. NoTick \in Tick /\ NoTick.read = {} /\ NoTick.plan = {}
      BY DEF NoTick, Tick, Zero
    <2>2. tick' \in Tick /\ tick'.at = "count" /\ tick'.read = {} /\ tick'.plan = {}
      BY <1>0, <2>1, <2>a DEF Tick
    <2>3. QED
      BY <1>0, <2>1, <2>2 DEF BalancerInv, TickInv, Undisturbed
  <1>3. CASE CountLoads
    <2>0. UNCHANGED <<home, dead, moves, changes>> /\ tick.read = {} /\ tick.plan = {}
      BY <1>3 DEF CountLoads, BalancerInv
    <2>1. CASE LiveAccounts = {}
      <3>1. tick' = [tick EXCEPT !.at = "over"]
        BY <1>3, <2>1 DEF CountLoads
      <3>2. /\ tick' \in Tick /\ tick'.at = "over" /\ tick'.read = {} /\ tick'.plan = {}
            /\ tick'.dead = tick.dead
        BY <1>0, <2>0, <3>1 DEF Tick
      <3>3. LiveAccounts' = {}
        BY <2>1, <3>2 DEF LiveAccounts
      <3>4. QED
        BY <1>0, <2>0, <3>2, <3>3
           DEF BalancerInv, TickInv, ListsAreTrue, Once, CountsAreTrue, NothingLeft
    <2>2. CASE LiveAccounts # {}
      <3> DEFINE n == [a \in Fleetmen |-> Cardinality(Owned(a))]
      <3>1. tick' = [tick EXCEPT !.at = "plan", !.total = Cardinality(Movables), !.counts = n]
        BY <1>3, <2>2 DEF CountLoads
      <3>2. Cardinality(Movables) \in Nat
        BY BalancerAssumption, FS_CardinalityType
      <3>3. n \in [Fleetmen -> Int]
        <4>1. \A a \in Fleetmen : Cardinality(Owned(a)) \in Int
          BY <1>0, WholeList, FS_CardinalityType
        <4>2. QED
          BY <4>1
      <3>4. \A a \in Fleetmen : n[a] = Cardinality(Owned(a))
        OBVIOUS
      <3> HIDE DEF n
      <3>5. /\ tick' \in Tick /\ tick'.at = "plan" /\ tick'.read = {} /\ tick'.plan = {}
            /\ tick'.dead = tick.dead /\ tick'.counts = n /\ tick.dead \subseteq Fleetmen
        BY <1>0, <2>0, <3>1, <3>2, <3>3 DEF Tick
      <3>6. LiveAccounts' = LiveAccounts
        BY <3>5 DEF LiveAccounts
      <3>7. \A a \in Fleetmen : Bucket(a)' = FirstOf(a) /\ Owned(a)' = Owned(a)
        BY <2>0, <3>5 DEF Bucket, FirstOf, Owned
      <3>8. CountsAreTrue'
        <4> SUFFICES ASSUME NEW a \in tick.dead, Cardinality(Owned(a)) <= BucketLimit
                     PROVE  n[a] = Cardinality(FirstOf(a))
          BY <2>0, <3>5, <3>7 DEF CountsAreTrue
        <4>1. QED
          BY <1>0, <3>4, <3>5, WholeList
      <3>9. QED
        BY <1>0, <2>0, <2>2, <3>5, <3>6, <3>8
           DEF BalancerInv, TickInv, ListsAreTrue, Once, NothingLeft
    <2>3. QED
      BY <2>1, <2>2
  <1>4. CASE PlanEnds
    <2>0. /\ tick.at = "plan" /\ Pairs = {} /\ tick' = [tick EXCEPT !.at = "over"]
          /\ UNCHANGED <<home, dead, moves, changes>> /\ LiveAccounts # {}
      BY <1>4 DEF PlanEnds, BalancerInv
    <2>1. /\ tick' \in Tick /\ tick'.at = "over" /\ tick'.dead = tick.dead /\ tick'.plan = tick.plan
          /\ tick'.calm = tick.calm /\ tick'.full = tick.full /\ tick'.read = tick.read
          /\ tick'.left = tick.left /\ tick'.counts = tick.counts
      BY <1>0, <2>0 DEF Tick
    <2>2. \A a \in Fleetmen : FirstOf(a)' = FirstOf(a) /\ Owned(a)' = Owned(a) /\ Bucket(a)' = Bucket(a)
      BY <2>0, <2>1, BucketsStand
    <2>3. LiveAccounts' = LiveAccounts
      BY <2>1 DEF LiveAccounts
    <2>4. ASSUME Undisturbed' PROVE ListsAreTrue' /\ Once' /\ CountsAreTrue' /\ NothingLeft'
      <3>1. ListsAreTrue /\ Once /\ CountsAreTrue /\ tick.dead \subseteq Fleetmen /\ tick.read \subseteq Fleetmen
        BY <1>0, <2>0, <2>1, <2>4 DEF BalancerInv, Undisturbed, Tick
      <3>2. ListsAreTrue' /\ Once'
        BY <2>0, <2>1, <2>2, <2>3, <3>1 DEF ListsAreTrue, Once
      <3>3. CountsAreTrue'
        BY <2>0, <2>1, <2>2, <2>3, <3>1 DEF CountsAreTrue
      <3>4. NothingLeft'
        BY <1>0, <2>0, <2>1, LoopEnds DEF NothingLeft
      <3>5. QED
        BY <3>2, <3>3, <3>4
    <2>5. QED
      BY <1>0, <2>0, <2>1, <2>4 DEF BalancerInv, TickInv
  <1>5. CASE NextTick
    <2>1. tick' = NoTick /\ UNCHANGED <<home, dead, moves, changes>>
      BY <1>5 DEF NextTick
    <2>2. tick' \in Tick /\ tick'.at = "off" /\ tick'.read = {} /\ tick'.plan = {}
      BY <2>1 DEF NoTick, Tick, Zero
    <2>3. QED
      BY <1>0, <2>1, <2>2 DEF BalancerInv, TickInv, Undisturbed
  <1>6. ASSUME Disturbed, home' \in [Movables -> Fleetmen], dead' \subseteq Fleetmen, moves' \subseteq Moves
        PROVE  BalancerInv'
    <2>1. tick' = [tick EXCEPT !.calm = (tick.at = "off")] /\ changes' \in 0 .. MaxChanges
      BY <1>0, <1>6, BalancerAssumption DEF Disturbed
    <2>2. /\ tick' \in Tick /\ tick'.at = tick.at /\ tick'.read = tick.read /\ tick'.plan = tick.plan
          /\ tick'.dead = tick.dead
      BY <1>0, <2>1 DEF Tick
    <2>3. tick'.calm <=> tick.at = "off"
      BY <1>0, <2>1 DEF Tick
    <2>4. ~Undisturbed'
      BY <2>2, <2>3 DEF Undisturbed
    <2>5. QED
      BY <1>6, <2>1, <2>2, <2>4 DEF BalancerInv, TickInv, LiveAccounts
  <1>7. ASSUME NEW m \in Moves, MoveEnds(m) PROVE BalancerInv'
    <2>1. home' \in [Movables -> Fleetmen]
      BY <1>0, <1>7 DEF MoveEnds, Moves
    <2>2. QED
      BY <1>0, <1>6, <1>7, <2>1 DEF MoveEnds
  <1>8. ASSUME NEW a \in Fleetmen, StatusChanges(a) PROVE BalancerInv'
    BY <1>0, <1>6, <1>8 DEF StatusChanges
  <1>9. CASE UNCHANGED balancerVars
    <2>1. \A a : FirstOf(a)' = FirstOf(a) /\ Owned(a)' = Owned(a) /\ Bucket(a)' = Bucket(a)
      BY <1>9 DEF balancerVars, FirstOf, Owned, Bucket
    <2>2. QED
      BY <1>9, <2>1 DEF balancerVars, BalancerInv, TickInv, Undisturbed, ListsAreTrue, Once, CountsAreTrue,
                        NothingLeft, LiveAccounts
  <1>10. QED
    BY <1>1, <1>2, <1>3, <1>4, <1>5, <1>7, <1>8, <1>9 DEF BalancerNext

\* The inductive invariant: in a fleet nobody disturbs, counts, lists and plan of
\* the tick add up to the table.
THEOREM BalancerInvariant == BalancerSpec => []BalancerInv
  BY InitBalancerInv, NextBalancerInv, PTL DEF BalancerSpec

\* For any fleet and any loads the plan of an undisturbed tick moves a channel once
\* and leaves nothing on a dead account whose list is not cut short.
THEOREM PlansAreSound == BalancerSpec => []PlanIsSound
  <1>1. BalancerInv => PlanIsSound
    <2> SUFFICES ASSUME BalancerInv PROVE OneMovePerTick /\ DeadDrained
      BY DEF PlanIsSound
    <2>0. tick \in Tick /\ home \in [Movables -> Fleetmen]
      BY DEF BalancerInv, TickInv
    <2>1. OneMovePerTick
      BY <2>0 DEF OneMovePerTick, BalancerInv, Undisturbed, Once, Tick
    <2>2. DeadDrained
      <3> SUFFICES ASSUME Planned, NEW a \in tick.dead, Cardinality(Owned(a)) <= BucketLimit,
                          NEW c \in After(a)
                   PROVE  FALSE
        BY DEF DeadDrained
      <3>1. ListsAreTrue /\ CountsAreTrue /\ NothingLeft
        BY DEF Planned, BalancerInv, Undisturbed
      <3>2. tick.counts[a] = Cardinality(Bucket(a)) /\ tick.counts[a] <= 0
        BY <3>1 DEF Planned, CountsAreTrue, NothingLeft
      <3>3. FirstOf(a) = Owned(a) /\ IsFiniteSet(Owned(a))
        BY <2>0, WholeList
      <3>4. Bucket(a) \subseteq Owned(a)
        BY <3>1, <3>3 DEF Bucket, ListsAreTrue
      <3>5. Bucket(a) = {}
        <4>1. IsFiniteSet(Bucket(a))
          BY <3>3, <3>4, FS_Subset
        <4>2. Cardinality(Bucket(a)) \in Nat
          BY <4>1, FS_CardinalityType
        <4>3. Cardinality(Bucket(a)) = 0
          BY <3>2, <4>2
        <4>4. QED
          BY <4>1, <4>3, FS_EmptySet
      <3>6. \A x \in Owned(a) : \E m \in tick.plan : m.ch = x
        BY <3>1, <3>3, <3>5 DEF Bucket, ListsAreTrue
      <3>7. \A m \in tick.plan : m.to # a
        BY <3>1 DEF ListsAreTrue, LiveAccounts
      <3>8. c \in Owned(a)
        BY <3>7 DEF After, Owned
      <3>9. QED
        BY <3>6, <3>7, <3>8 DEF After
    <2>3. QED
      BY <2>1, <2>2
  <1>2. QED
    BY <1>1, BalancerInvariant, PTL

\* The counts of a tick are the loads of some assignment of the channels, or less.
LoadOf(g, a) == {c \in Movables : g[c] = a}
CountsCovered ==
    \E g \in [Movables -> Fleetmen] : \A a \in Fleetmen :
        tick.counts[a] \in 0 .. Cardinality(LoadOf(g, a))

\* Loads are finite, none above the number of channels.
LEMMA LoadsFinite ==
    ASSUME NEW g, NEW a
    PROVE  /\ IsFiniteSet(LoadOf(g, a)) /\ Cardinality(LoadOf(g, a)) \in Nat
           /\ Cardinality(LoadOf(g, a)) <= Cardinality(Movables)
  <1>1. LoadOf(g, a) \subseteq Movables
    BY DEF LoadOf
  <1>2. QED
    BY <1>1, BalancerAssumption, FS_Subset, FS_CardinalityType

\* An account above the band has a count, and the share of the others is below it.
LEMMA AboveShare ==
    ASSUME NEW n \in Nat, n > 0, NEW total \in Nat, NEW k \in Int, 100 * n * k > 105 * total
    PROVE  k > 0 /\ (95 * total) \div (100 * n) \in 0 .. k
  <1> DEFINE N == 100 * n
             d == (95 * total) \div N
  <1>1. N \in Nat /\ N > 0 /\ N * k > 105 * total
    <2>1. 100 * n * k = N * k
      OBVIOUS
    <2>2. QED
      BY <2>1
  <1> HIDE DEF N
  <1>2. d \in Int /\ N * d <= 95 * total /\ 95 * total < N * d + N
    BY <1>1
  <1> HIDE DEF d
  <1>3. k > 0
    <2>1. ASSUME k <= 0 PROVE N * k <= 0
      BY <1>1, <2>1
    <2>2. QED
      BY <1>1, <2>1
  <1>4. d >= 0
    <2>1. ASSUME d <= -1 PROVE N * d + N <= 0
      BY <1>1, <1>2, <2>1
    <2> DEFINE X == N * d + N
    <2>2. 95 * total < X /\ X \in Int /\ (d <= -1 => X <= 0)
      BY <1>1, <1>2, <2>1
    <2> HIDE DEF X
    <2>3. QED
      BY <1>2, <2>2
  <1>5. d <= k
    <2>1. ASSUME d >= k PROVE N * d >= N * k
      BY <1>1, <1>2, <2>1
    <2>2. QED
      BY <1>1, <1>2, <2>1
  <1>6. QED
    BY <1>2, <1>3, <1>4, <1>5 DEF d, N

\* The account a move takes from has a count, and is not the one it goes to.
LEMMA TakesFromTheLoaded ==
    ASSUME tick \in Tick, LiveAccounts # {}, NEW s, NEW t, <<s, t>> \in Pairs
    PROVE  /\ s \in Fleetmen /\ t \in Fleetmen /\ s # t /\ tick.counts[s] > 0
           /\ s \notin tick.dead => Low \in 0 .. tick.counts[s]
  <1>1. Cardinality(LiveAccounts) \in Nat /\ Cardinality(LiveAccounts) # 0
    BY BalancerAssumption, FS_Subset, FS_CardinalityType, FS_EmptySet DEF LiveAccounts
  <1>2. /\ s \in Fleetmen /\ t \in LiveAccounts /\ (s \in tick.dead \/ ToDrain = {})
        /\ tick.counts \in [Fleetmen -> Int] /\ tick.total \in Nat /\ LiveAccounts \subseteq Fleetmen
    BY PairOf DEF Tick, LiveAccounts
  <1>3. CASE ToDrain # {}
    <2>1. s \in ToDrain
      BY <1>3 DEF Pairs, Heaviest
    <2>2. QED
      BY <1>2, <2>1 DEF ToDrain, LiveAccounts
  <1>4. CASE ToDrain = {}
    <2>1. Over(s) /\ Under(t)
      BY <1>4 DEF Pairs, Heaviest, Lightest
    <2> DEFINE n == Cardinality(LiveAccounts)
               total == tick.total
               k == tick.counts[s]
    <2>2. n \in Nat /\ n > 0 /\ total \in Nat /\ k \in Int /\ 100 * n * k > 105 * total
      BY <1>1, <1>2, <2>1 DEF Over
    <2>3. t = s => 100 * n * k < 95 * total
      BY <2>1 DEF Under
    <2>4. Low = (95 * total) \div (100 * n)
      BY DEF Low
    <2> HIDE DEF n, total, k
    <2>5. k > 0 /\ Low \in 0 .. k
      BY <2>2, <2>4, AboveShare
    <2>6. s # t
      <3> DEFINE X == 100 * n * k
      <3>1. X \in Int /\ X > 105 * total /\ (t = s => X < 95 * total)
        BY <2>2, <2>3
      <3> HIDE DEF X
      <3>2. QED
        BY <2>2, <3>1
    <2>7. QED
      BY <1>2, <2>5, <2>6 DEF k
  <1>5. QED
    BY <1>3, <1>4

\* One channel more on t, one less on s.
LEMMA OneMoves ==
    ASSUME NEW g \in [Movables -> Fleetmen], NEW s \in Fleetmen, NEW t \in Fleetmen, s # t,
           NEW c \in Movables, g[c] = s
    PROVE  \E h \in [Movables -> Fleetmen] :
              /\ \A a \in Fleetmen \ {s, t} : LoadOf(h, a) = LoadOf(g, a)
              /\ Cardinality(LoadOf(h, s)) = Cardinality(LoadOf(g, s)) - 1
              /\ Cardinality(LoadOf(h, t)) = Cardinality(LoadOf(g, t)) + 1
  <1> DEFINE h == [g EXCEPT ![c] = t]
  <1>1. /\ h \in [Movables -> Fleetmen]
        /\ \A d \in Movables : h[d] = IF d = c THEN t ELSE g[d]
    OBVIOUS
  <1> HIDE DEF h
  <1>2. /\ \A a \in Fleetmen \ {s, t} : LoadOf(h, a) = LoadOf(g, a)
        /\ LoadOf(h, s) = LoadOf(g, s) \ {c} /\ c \in LoadOf(g, s)
        /\ LoadOf(h, t) = LoadOf(g, t) \cup {c} /\ c \notin LoadOf(g, t)
    BY <1>1 DEF LoadOf
  <1>3. /\ Cardinality(LoadOf(g, s) \ {c}) = Cardinality(LoadOf(g, s)) - 1
        /\ Cardinality(LoadOf(g, t) \cup {c}) = Cardinality(LoadOf(g, t)) + 1
    BY <1>2, LoadsFinite, FS_RemoveElement, FS_AddElement
  <1>4. QED
    BY <1>1, <1>2, <1>3

\* The cover, action by action.
LEMMA CountsCoveredStep ==
    ASSUME BalancerInv, CountsCovered, [BalancerNext]_balancerVars
    PROVE  CountsCovered'
  <1>0. tick \in Tick /\ home \in [Movables -> Fleetmen] /\ NoTick.counts = Zero
    BY DEF BalancerInv, TickInv, NoTick
  <1>1. PICK g \in [Movables -> Fleetmen] :
           \A a \in Fleetmen : tick.counts[a] \in 0 .. Cardinality(LoadOf(g, a))
    BY DEF CountsCovered
  <1>2. ASSUME tick'.counts = tick.counts PROVE CountsCovered'
    BY <1>1, <1>2 DEF CountsCovered
  <1>3. ASSUME tick'.counts = Zero PROVE CountsCovered'
    <2>1. \A a \in Fleetmen : tick'.counts[a] \in 0 .. Cardinality(LoadOf(g, a))
      BY <1>3, LoadsFinite DEF Zero
    <2>2. QED
      BY <1>1, <2>1 DEF CountsCovered
  <1>4. ASSUME NEW s \in Fleetmen, NEW t \in Fleetmen, PlanMove(s, t) PROVE CountsCovered'
    <2>0. <<s, t>> \in Pairs /\ LiveAccounts # {} /\ tick.counts \in [Fleetmen -> Int]
      BY <1>0, <1>4, RoundFacts DEF PlanMove, Tick
    <2>1. CASE Bucket(s) = {}
      <3> DEFINE n == IF s \in tick.dead THEN 0 ELSE Low
      <3>1. tick' = [tick EXCEPT !.read = @ \cup {s}, !.left[s] = {}, !.counts[s] = n]
        BY <1>4, <2>1 DEF PlanMove
      <3>2. n \in 0 .. tick.counts[s] /\ tick.counts[s] \in Int
        BY <1>0, <2>0, TakesFromTheLoaded
      <3> HIDE DEF n
      <3>3. \A a \in Fleetmen : tick'.counts[a] = IF a = s THEN n ELSE tick.counts[a]
        BY <1>0, <2>0, <3>1 DEF Tick
      <3>4. \A a \in Fleetmen : tick'.counts[a] \in 0 .. Cardinality(LoadOf(g, a))
        BY <1>1, <3>2, <3>3, LoadsFinite
      <3>5. QED
        BY <3>4 DEF CountsCovered
    <2>2. CASE Bucket(s) # {} /\ Cardinality(moves) >= QueueRoom
      <3>1. tick' = [tick EXCEPT !.at = "over", !.full = TRUE]
        BY <1>4, <2>2 DEF PlanMove
      <3>2. QED
        BY <1>0, <1>2, <3>1 DEF Tick
    <2>3. CASE Bucket(s) # {} /\ ~(Cardinality(moves) >= QueueRoom)
      <3>1. tick'.counts = Shifted(s, t)
        BY <1>0, <1>4, <2>3 DEF PlanMove, Tick
      <3>2. s # t /\ tick.counts[s] > 0
        BY <1>0, <2>0, TakesFromTheLoaded
      <3>3. /\ \A a \in Fleetmen \ {s, t} : tick'.counts[a] = tick.counts[a]
            /\ tick'.counts[s] = tick.counts[s] - 1 /\ tick'.counts[t] = tick.counts[t] + 1
        BY <2>0, <3>1, <3>2 DEF Shifted
      <3>4. PICK c \in Movables : g[c] = s
        <4>1. LoadOf(g, s) # {}
          BY <1>1, <2>0, <3>2, FS_EmptySet
        <4>2. QED
          BY <4>1 DEF LoadOf
      <3>5. PICK h \in [Movables -> Fleetmen] :
               /\ \A a \in Fleetmen \ {s, t} : LoadOf(h, a) = LoadOf(g, a)
               /\ Cardinality(LoadOf(h, s)) = Cardinality(LoadOf(g, s)) - 1
               /\ Cardinality(LoadOf(h, t)) = Cardinality(LoadOf(g, t)) + 1
        BY <3>2, <3>4, OneMoves
      <3>6. ASSUME NEW a \in Fleetmen PROVE tick'.counts[a] \in 0 .. Cardinality(LoadOf(h, a))
        <4>1. CASE a \notin {s, t}
          BY <1>1, <3>3, <3>5, <4>1
        <4>2. CASE a = s
          BY <1>1, <2>0, <3>2, <3>3, <3>5, <4>2, LoadsFinite
        <4>3. CASE a = t
          BY <1>1, <2>0, <3>3, <3>5, <4>3, LoadsFinite
        <4>4. QED
          BY <4>1, <4>2, <4>3
      <3>7. QED
        BY <3>6 DEF CountsCovered
    <2>4. QED
      BY <2>1, <2>2, <2>3
  <1>5. CASE StartTick
    <2>1. tick'.counts = Zero
      BY <1>5 DEF StartTick, NoTick
    <2>2. QED
      BY <1>3, <2>1
  <1>6. CASE CountLoads
    <2>1. CASE LiveAccounts = {}
      BY <1>0, <1>2, <1>6, <2>1 DEF CountLoads, Tick
    <2>2. CASE LiveAccounts # {}
      <3>1. tick'.counts = [a \in Fleetmen |-> Cardinality(Owned(a))]
        BY <1>0, <1>6, <2>2 DEF CountLoads, Tick
      <3>2. \A a \in Fleetmen : Owned(a) = LoadOf(home, a)
        BY DEF Owned, LoadOf
      <3>3. PICK h \in [Movables -> Fleetmen] : h = home
        BY <1>0
      <3>4. \A a \in Fleetmen : tick'.counts[a] \in 0 .. Cardinality(LoadOf(h, a))
        BY <3>1, <3>2, <3>3, LoadsFinite
      <3>5. QED
        BY <3>4 DEF CountsCovered
    <2>3. QED
      BY <2>1, <2>2
  <1>7. CASE PlanEnds
    BY <1>0, <1>2, <1>7 DEF PlanEnds, Tick
  <1>8. CASE NextTick
    BY <1>0, <1>3, <1>8 DEF NextTick
  <1>9. CASE Disturbed
    BY <1>0, <1>2, <1>9 DEF Disturbed, Tick
  <1>10. CASE UNCHANGED balancerVars
    BY <1>2, <1>10 DEF balancerVars
  <1>11. QED
    BY <1>4, <1>5, <1>6, <1>7, <1>8, <1>9, <1>10 DEF BalancerNext, MoveEnds, StatusChanges

\* The counts stay within the channels there are, though the loop sets and shifts
\* them on its own.
THEOREM BalancerTypeCorrect == BalancerSpec => []BalancerTypeOK
  <1>1. BalancerInit => CountsCovered
    <2> SUFFICES ASSUME BalancerInit PROVE CountsCovered
      OBVIOUS
    <2>1. PICK g \in [Movables -> Fleetmen] : g = home
      BY DEF BalancerInit
    <2>2. \A a \in Fleetmen : tick.counts[a] \in 0 .. Cardinality(LoadOf(g, a))
      BY LoadsFinite DEF BalancerInit, NoTick, Zero
    <2>3. QED
      BY <2>2 DEF CountsCovered
  <1>2. BalancerInv /\ CountsCovered /\ [BalancerNext]_balancerVars => CountsCovered'
    BY CountsCoveredStep
  <1>3. BalancerInv /\ CountsCovered => BalancerTypeOK
    <2> SUFFICES ASSUME BalancerInv, CountsCovered PROVE BalancerTypeOK
      OBVIOUS
    <2>1. TickInv /\ tick \in Tick
      BY DEF BalancerInv, TickInv
    <2>2. PICK g \in [Movables -> Fleetmen] :
             \A a \in Fleetmen : tick.counts[a] \in 0 .. Cardinality(LoadOf(g, a))
      BY DEF CountsCovered
    <2>3. Cardinality(Movables) \in Nat
      BY BalancerAssumption, FS_CardinalityType
    <2>4. \A a \in Fleetmen : tick.counts[a] \in 0 .. Cardinality(Movables)
      BY <2>2, <2>3, LoadsFinite
    <2>5. tick.counts \in [Fleetmen -> 0 .. Cardinality(Movables)]
      BY <2>1, <2>4 DEF Tick
    <2>6. QED
      BY <2>1, <2>5 DEF BalancerTypeOK, TickInv, Tick
  <1>4. QED
    BY <1>1, <1>2, <1>3, BalancerInvariant, PTL DEF BalancerSpec

-----------------------------------------------------------------------------
\* Health: one session, its row and the tasks that learn of it.

\* The monitor, the supervisor, the callers, the dispatcher and the resync of one
\* session.
HealthSpec == HealthInit /\ [][HealthNext]_healthVars

\* A statement a task waits for.
Pending(write) == \E t \in Workings : doing[t].at = "write" /\ doing[t].write = write

\* No statement was lost, and no two were under way at a time.
InOrder == past \cap {"disorder", "lost"} = {}

\* Who is through is out of the way of the others, unless two were under way.
OneWriter == InOrder => \A t, u \in Workings : doing[t].at = "write" /\ doing[u].at = "write" => t = u

BanUnderWay ==
    /\ memory.banned => account.status = "banned" \/ Pending("banned") \/ "lost" \in past
    /\ account.status = "banned" \/ Pending("banned")
         => memory.banned \/ past \cap {"lost", "alone", "renewed"} # {}

ErrorUnderWay ==
    InOrder /\ listed /\ memory.status = "error" => account.status \in {"error", "banned"} \/ Pending("error")

NoStatement == \A t \in Workings : doing[t].at # "write" => doing[t].write = "none"

ReactivatesTheHealthy ==
    InOrder /\ listed /\ Pending("reactivate") => memory.status # "error" \/ account.status = "banned"

HealthInv ==
    /\ HealthTypeOK
    /\ account.status \in {"error", "banned"} => ~account.enabled
    /\ NoStatement /\ OneWriter /\ BanUnderWay /\ ErrorUnderWay /\ ReactivatesTheHealthy

\* Outside a clump there is no supervisor, and no SessionHealth to mark.
Unlisted == ~listed => doing["supervisor"].at = "idle" /\ ~memory.banned

\* What the statements make of a row.
LEMMA RowAfterRow ==
    ASSUME account \in AccountRow, account.status \in {"error", "banned"} => ~account.enabled, NEW write,
           write \in {"none", "cooldown", "banned", "error", "reactivate"}
    PROVE  /\ RowAfter(write) \in AccountRow
           /\ RowAfter(write).status \in {"error", "banned"} => ~RowAfter(write).enabled
           /\ account.status = "banned" => RowAfter(write).status = "banned"
           /\ RowAfter(write).status = "banned" => account.status = "banned" \/ write = "banned"
           /\ write = "banned" => RowAfter(write).status = "banned"
           /\ write = "error" => RowAfter(write).status \in {"error", "banned"}
           /\ account.status = "error" /\ write \notin {"cooldown", "reactivate"}
                => RowAfter(write).status \in {"error", "banned"}
  <1>1. CASE write = "cooldown"
    BY <1>1 DEF RowAfter, CooledDown, AccountRow, DeadStatuses
  <1>2. CASE write = "banned"
    BY <1>2 DEF RowAfter, Banned, AccountRow, DeadStatuses
  <1>3. CASE write = "error"
    BY <1>3 DEF RowAfter, Errored, AccountRow, DeadStatuses
  <1>4. CASE write = "reactivate"
    BY <1>4 DEF RowAfter, Reactivated, AccountRow, DeadStatuses
  <1>5. CASE write = "none"
    BY <1>5 DEF RowAfter, AccountRow, DeadStatuses
  <1>6. QED
    BY <1>1, <1>2, <1>3, <1>4, <1>5

\* The methods of SessionHealth that are not about a ban do not touch it.
LEMMA Methods ==
    ASSUME NEW m \in SessionHealth
    PROVE  /\ {Connected(m), Disconnected(m), Flooded(m), FloodCleared(m), MarkedBanned(m),
               Unauthorized(m), Reauthorized(m)} \subseteq SessionHealth
           /\ \A n \in {Connected(m), Disconnected(m), Flooded(m), FloodCleared(m),
                        Unauthorized(m), Reauthorized(m)} : n.banned = m.banned
           /\ MarkedBanned(m).banned
           /\ \A n \in {Connected(m), Disconnected(m), Flooded(m), FloodCleared(m),
                        MarkedBanned(m), Reauthorized(m)} : n.status = "error" => m.status = "error"
           /\ Reauthorized(m).status = "error" => m.banned
  <1>1. Connected(m) \in SessionHealth /\ Connected(m).banned = m.banned
          /\ (Connected(m).status = "error" => m.status = "error")
    BY DEF Connected, SessionHealth
  <1>2. Disconnected(m) \in SessionHealth /\ Disconnected(m).banned = m.banned
          /\ (Disconnected(m).status = "error" => m.status = "error")
    BY DEF Disconnected, SessionHealth
  <1>3. Flooded(m) \in SessionHealth /\ Flooded(m).banned = m.banned
          /\ (Flooded(m).status = "error" => m.status = "error")
    BY DEF Flooded, SessionHealth
  <1>4. FloodCleared(m) \in SessionHealth /\ FloodCleared(m).banned = m.banned
          /\ (FloodCleared(m).status = "error" => m.status = "error")
    BY DEF FloodCleared, SessionHealth
  <1>5. MarkedBanned(m) \in SessionHealth /\ MarkedBanned(m).banned
          /\ (MarkedBanned(m).status = "error" => m.status = "error")
    BY DEF MarkedBanned, SessionHealth
  <1>6. Unauthorized(m) \in SessionHealth /\ Unauthorized(m).banned = m.banned
    BY DEF Unauthorized, SessionHealth
  <1>7. Reauthorized(m) \in SessionHealth /\ Reauthorized(m).banned = m.banned
          /\ (Reauthorized(m).status = "error" => m.status = "error" /\ m.banned)
    BY DEF Reauthorized, SessionHealth
  <1>8. QED
    BY <1>1, <1>2, <1>3, <1>4, <1>5, <1>6, <1>7

\* A task that waits for no statement begins or ends something else.
LEMMA QuietStep ==
    ASSUME HealthInv, NEW t \in Workings, NEW w \in Work, doing[t].at # "write",
           w.at # "write", w.write = "none",
           Does(t, w) \/ UNCHANGED doing, memory' \in SessionHealth,
           memory'.banned = memory.banned, memory'.status = "error" => memory.status = "error",
           UNCHANGED <<account, past, listed>>, HealthTypeOK'
    PROVE  HealthInv'
  <1>1. \A u \in Workings : /\ doing'[u].at = "write" <=> doing[u].at = "write"
                            /\ doing'[u].at = "write" => doing'[u] = doing[u]
    BY DEF Does, HealthInv, HealthTypeOK
  <1>2. \A write : Pending(write)' <=> Pending(write)
    BY <1>1 DEF Pending
  <1>3. OneWriter'
    BY <1>1 DEF HealthInv, OneWriter, InOrder
  <1>4. BanUnderWay' /\ ErrorUnderWay' /\ ReactivatesTheHealthy'
    BY <1>2 DEF HealthInv, BanUnderWay, ErrorUnderWay, ReactivatesTheHealthy, InOrder
  <1>5. NoStatement'
    BY DEF Does, HealthInv, HealthTypeOK, NoStatement
  <1>6. QED
    BY <1>3, <1>4, <1>5 DEF HealthInv

\* A task has learnt something of the session, noted it in memory and sets out
\* to write it down.
LEMMA WritingStep ==
    ASSUME HealthInv, NEW t \in Workings, NEW w \in Work, doing[t].at # "write",
           w.at = "write", Does(t, w), past \subseteq past',
           "disorder" \in past' \/ \A u \in Workings \ {t} : doing[u].at # "write",
           memory'.banned => memory.banned \/ w.write = "banned",
           memory.banned => memory'.banned,
           w.write = "banned" => memory'.banned \/ "alone" \in past',
           memory'.status = "error" => memory.status = "error" \/ w.write = "error",
           w.write = "reactivate" /\ listed /\ memory'.status = "error" => memory.banned,
           UNCHANGED <<account, listed>>, HealthTypeOK'
    PROVE  HealthInv'
  <1>1. /\ \A u \in Workings \ {t} : doing'[u] = doing[u]
        /\ doing'[t].at = "write" /\ doing'[t].write = w.write
    BY DEF Does, HealthInv, HealthTypeOK
  <1>2. \A x : Pending(x)' <=> (Pending(x) \/ x = w.write)
    BY <1>1 DEF Pending
  <1>3. InOrder' => InOrder /\ \A u \in Workings \ {t} : doing[u].at # "write"
    BY DEF InOrder
  <1>4. InOrder' => \A x : ~Pending(x)
    BY <1>3 DEF Pending
  <1>5. OneWriter'
    BY <1>1, <1>3 DEF OneWriter
  <1>6. BanUnderWay'
    <2>1. memory'.banned => account'.status = "banned" \/ Pending("banned")' \/ "lost" \in past'
      BY <1>2 DEF HealthInv, BanUnderWay
    <2>2. account'.status = "banned" \/ Pending("banned")'
             => memory'.banned \/ past' \cap {"lost", "alone", "renewed"} # {}
      BY <1>2 DEF HealthInv, BanUnderWay
    <2>3. QED
      BY <2>1, <2>2 DEF BanUnderWay
  <1>7. ErrorUnderWay'
    BY <1>2, <1>3, <1>4 DEF HealthInv, ErrorUnderWay
  <1>8. ReactivatesTheHealthy'
    <2> SUFFICES ASSUME InOrder', listed', Pending("reactivate")', memory'.status = "error"
                 PROVE  account'.status = "banned"
      BY DEF ReactivatesTheHealthy
    <2>1. InOrder /\ \A x : ~Pending(x)
      BY <1>3, <1>4
    <2>2. w.write = "reactivate"
      BY <1>2, <2>1
    <2>3. memory.banned
      BY <2>2
    <2>4. QED
      BY <2>1, <2>3 DEF HealthInv, BanUnderWay, InOrder
  <1>9. NoStatement'
    BY <1>1 DEF HealthInv, NoStatement
  <1>10. QED
    BY <1>5, <1>6, <1>7, <1>8, <1>9 DEF HealthInv

\* The statement of t is through, or lost; t may wait for an 'error' next.
LEMMA WrittenStep ==
    ASSUME HealthInv, NEW t \in Workings, WriteRow(t), HealthTypeOK'
    PROVE  HealthInv'
  <1> DEFINE v == doing[t]
  <1>1. /\ v \in Work /\ v.at = "write" /\ memory \in SessionHealth /\ account \in AccountRow
        /\ account.status \in {"error", "banned"} => ~account.enabled
    BY DEF WriteRow, HealthInv, HealthTypeOK
  <1>2. v.write \in {"none", "cooldown", "banned", "error", "reactivate"}
    BY <1>1 DEF Work
  <1>3. \A u \in Workings \ {t} : doing'[u] = doing[u]
    BY DEF WriteRow, Does, HealthInv, HealthTypeOK
  <1>4. /\ past \subseteq past'
        /\ \/ account' = RowAfter(v.write)
              /\ (v.write = "cooldown" /\ account.status = "error" => "disorder" \in past')
           \/ account' = account /\ "lost" \in past'
    BY DEF WriteRow
  <1>5. account'.status \in {"error", "banned"} => ~account'.enabled
    BY <1>1, <1>2, <1>4, RowAfterRow
  <1>6. \/ doing'[t].at # "write" /\ (memory'.status = "error" => memory.status = "error")
        \/ doing'[t].at = "write" /\ doing'[t].write = "error"
    <2>1. CASE v.next = "raised"
      BY <2>1 DEF WriteRow, Does, HealthInv, HealthTypeOK
    <2>2. CASE v.next # "raised"
      <3>1. doing'[t].at = v.next
        BY <2>2 DEF WriteRow, Does, At, Rest, HealthInv, HealthTypeOK
      <3>2. v.next # "write"
        BY <1>1 DEF Work
      <3>3. memory' = IF v.next = "listen" THEN Connected(memory) ELSE memory
        BY <2>2 DEF WriteRow
      <3>4. QED
        BY <1>1, <3>1, <3>2, <3>3, Methods
    <2>3. QED
      BY <2>1, <2>2
  <1>7. memory'.banned = memory.banned
    <2>1. memory' \in {Unauthorized(memory), Connected(memory), memory}
      BY DEF WriteRow
    <2>2. QED
      BY <1>1, <2>1, Methods
  <1>8. InOrder' => InOrder /\ \A u \in Workings \ {t} : doing[u].at # "write"
    BY <1>1, <1>4 DEF HealthInv, OneWriter, InOrder
  <1>9. OneWriter'
    BY <1>3, <1>8 DEF OneWriter
  <1>10. BanUnderWay'
    <2>1. CASE "lost" \in past'
      BY <2>1 DEF BanUnderWay
    <2>2. CASE "lost" \notin past'
      <3>1. account' = RowAfter(v.write) /\ "lost" \notin past
        BY <1>4, <2>2
      <3>2. account'.status = "banned" <=> account.status = "banned" \/ v.write = "banned"
        BY <1>1, <1>2, <3>1, RowAfterRow
      <3>3. Pending("banned") <=> v.write = "banned" \/ \E u \in Workings \ {t} :
                                      doing[u].at = "write" /\ doing[u].write = "banned"
        BY <1>1 DEF Pending
      <3>4. Pending("banned")' <=> \E u \in Workings \ {t} :
                                      doing[u].at = "write" /\ doing[u].write = "banned"
        BY <1>3, <1>6 DEF Pending
      <3>5. account'.status = "banned" \/ Pending("banned")'
              <=> account.status = "banned" \/ Pending("banned")
        BY <3>2, <3>3, <3>4
      <3>6. past \cap {"lost", "alone", "renewed"} # {} => past' \cap {"lost", "alone", "renewed"} # {}
        BY <1>4
      <3>7. QED
        BY <1>7, <3>1, <3>5, <3>6 DEF HealthInv, BanUnderWay
    <2>3. QED
      BY <2>1, <2>2
  <1>11. ErrorUnderWay'
    <2> SUFFICES ASSUME InOrder', listed', memory'.status = "error", ~Pending("error")'
                 PROVE  account'.status \in {"error", "banned"}
      BY DEF ErrorUnderWay
    <2>1. doing'[t].at # "write" /\ memory.status = "error"
      BY <1>6 DEF Pending
    <2>0. InOrder /\ listed
      BY <1>8 DEF WriteRow, sources
    <2>2. account' = RowAfter(v.write) /\ ~(v.write = "cooldown" /\ account.status = "error")
      BY <1>4 DEF InOrder
    <2>3. account.status \in {"error", "banned"} \/ v.write = "error"
      BY <1>1, <1>8, <2>0, <2>1 DEF HealthInv, ErrorUnderWay, Pending
    <2>4. v.write = "reactivate" => account.status = "banned"
      BY <1>1, <2>0, <2>1 DEF HealthInv, ReactivatesTheHealthy, Pending
    <2>5. QED
      BY <1>1, <1>2, <2>2, <2>3, <2>4, RowAfterRow
  <1>12. ReactivatesTheHealthy'
    <2>1. InOrder' => ~Pending("reactivate")'
      BY <1>3, <1>6, <1>8 DEF Pending
    <2>2. QED
      BY <2>1 DEF ReactivatesTheHealthy
  <1>13. NoStatement'
    <2>1. doing'[t].at = "write" \/ doing'[t].write = "none"
      BY <1>1 DEF WriteRow, Does, At, Rest, HealthInv, HealthTypeOK
    <2>2. QED
      BY <1>3, <2>1 DEF HealthInv, NoStatement
  <1>14. QED
    BY <1>5, <1>9, <1>10, <1>11, <1>12, <1>13 DEF HealthInv

\* A step of the resync, the sweep of cooldowns, or what happens outside: the
\* tasks and the memory stay as they are.
LEMMA RowStepOnly ==
    ASSUME HealthInv, UNCHANGED <<memory, doing, listed>>, past \subseteq past',
           account'.status \in {"error", "banned"} => ~account'.enabled,
           "lost" \notin past' => (account'.status = "banned" <=> account.status = "banned"),
           InOrder' /\ account.status \in {"error", "banned"} => account'.status \in {"error", "banned"},
           HealthTypeOK'
    PROVE  HealthInv'
  <1>1. \A write : Pending(write)' <=> Pending(write)
    BY DEF Pending
  <1>2. InOrder' => InOrder /\ "lost" \notin past'
    BY DEF InOrder
  <1>3. OneWriter'
    BY <1>2 DEF HealthInv, OneWriter
  <1>4. BanUnderWay' /\ ErrorUnderWay' /\ ReactivatesTheHealthy'
    BY <1>1, <1>2 DEF HealthInv, BanUnderWay, ErrorUnderWay, ReactivatesTheHealthy
  <1>5. NoStatement'
    BY DEF HealthInv, NoStatement
  <1>6. QED
    BY <1>3, <1>4, <1>5 DEF HealthInv

\* What a task is about is one of Workings.
LEMMA Works ==
    /\ Rest \in Work /\ Rest.at # "write" /\ Rest.write = "none"
    /\ \A pc \in {"idle", "get", "listen", "down", "sleep", "resolve", "observe", "probe"} :
          At(pc) \in Work /\ At(pc).at = pc /\ At(pc).write = "none"
  <1>1. Rest \in Work /\ Rest.at # "write" /\ Rest.write = "none"
    BY DEF Rest, Work
  <1>2. ASSUME NEW pc \in {"idle", "get", "listen", "down", "sleep", "resolve", "observe", "probe"}
        PROVE  At(pc) \in Work /\ At(pc).at = pc /\ At(pc).write = "none"
    BY DEF At, Rest, Work
  <1>3. QED
    BY <1>1, <1>2

\* A step of the tasks leaves the rest of the state to its type.
LEMMA TypeStep ==
    ASSUME HealthTypeOK, memory' \in SessionHealth, account' \in AccountRow,
           doing' \in [Workings -> Work], past' \subseteq Past,
           UNCHANGED <<resync, sources>>, UNCHANGED happened \/ Happens
    PROVE  HealthTypeOK'
  <1>1. happened' \in 0 .. MaxHappenings
    BY HealthAssumption DEF HealthTypeOK, Happens
  <1>2. QED
    BY <1>1 DEF HealthTypeOK, sources

\* Writes, with what it begins.
LEMMA WritesType ==
    ASSUME HealthTypeOK, NEW t \in Workings,
           NEW write \in {"none", "cooldown", "banned", "error", "reactivate"},
           NEW next \in {"idle", "listen", "raised", "down", "sleep", "resolve"},
           NEW locked \in BOOLEAN, Writes(t, write, next, locked),
           memory' \in SessionHealth, UNCHANGED <<account, resync, sources, happened>>
    PROVE  HealthTypeOK'
  <1>1. [at |-> "write", write |-> write, next |-> next, locked |-> locked] \in Work
    BY DEF Work
  <1>2. doing' \in [Workings -> Work]
    BY <1>1 DEF Writes, Does, HealthTypeOK
  <1>3. past' \subseteq Past
    BY DEF Writes, Past, HealthTypeOK
  <1>4. account' \in AccountRow /\ UNCHANGED <<resync, sources>> /\ UNCHANGED happened
    BY DEF HealthTypeOK
  <1>5. QED
    BY <1>2, <1>3, <1>4, TypeStep

\* The invariant, action by action.
LEMMA NextHealthInv == HealthInv /\ Unlisted /\ [HealthNext]_healthVars => HealthInv'
  <1> SUFFICES ASSUME HealthInv, Unlisted, [HealthNext]_healthVars PROVE HealthInv'
    OBVIOUS
  <1>0. /\ HealthTypeOK /\ memory \in SessionHealth /\ account \in AccountRow
        /\ doing \in [Workings -> Work] /\ past \subseteq Past
    BY DEF HealthInv, HealthTypeOK
  <1>a. ASSUME NEW t \in Workings, NEW w \in Work, doing[t].at # "write",
           w.at # "write", w.write = "none",
               Does(t, w) \/ UNCHANGED doing, memory' \in SessionHealth,
               memory'.banned = memory.banned, memory'.status = "error" => memory.status = "error",
               UNCHANGED <<account, resync, sources, past, happened>>
        PROVE  HealthInv'
    <2>1. doing' \in [Workings -> Work]
      BY <1>0, <1>a DEF Does
    <2>2. account' \in AccountRow /\ past' \subseteq Past /\ UNCHANGED <<resync, sources>>
      BY <1>0, <1>a
    <2>3. HealthTypeOK'
      BY <1>0, <1>a, <2>1, <2>2, TypeStep
    <2>4. QED
      BY <1>a, <2>3, QuietStep DEF sources
  <1>b. ASSUME NEW t \in Workings, NEW write \in {"cooldown", "banned", "error", "reactivate"},
               NEW next \in {"idle", "listen", "raised", "down", "sleep", "resolve"},
               NEW locked \in BOOLEAN, doing[t].at # "write", Writes(t, write, next, locked),
               memory' \in SessionHealth, memory'.banned <=> (memory.banned \/ write = "banned"),
               memory'.status = "error" => memory.status = "error" \/ write = "error",
               write = "reactivate" /\ listed /\ memory'.status = "error" => memory.banned,
               UNCHANGED <<account, resync, sources, happened>>
        PROVE  HealthInv'
    <2> DEFINE w == [at |-> "write", write |-> write, next |-> next, locked |-> locked]
    <2>1. HealthTypeOK'
      BY <1>0, <1>b, WritesType
    <2>2. w \in Work /\ w.at = "write" /\ w.write = write
      BY DEF Work
    <2>3. /\ Does(t, w) /\ past \subseteq past'
          /\ "disorder" \in past' \/ \A u \in Workings \ {t} : doing[u].at # "write"
      BY <1>b DEF Writes
    <2> HIDE DEF w
    <2>4. QED
      BY <1>b, <2>1, <2>2, <2>3, WritingStep DEF sources
  <1>c. ASSUME NEW m \in SessionHealth
        PROVE  /\ Noted(m) \in SessionHealth
               /\ Noted(m).banned = m.banned \/ (~listed /\ Noted(m).banned = memory.banned)
               /\ Noted(m).status = m.status \/ (~listed /\ Noted(m).status = memory.status)
    BY <1>0 DEF Noted, SessionHealth
  <1>1. ASSUME NEW t \in Workings, NEW ok \in {"listen", "idle", "resolve"},
               NEW failed \in {"raised", "idle"}, GetClient(t, ok, failed)
        PROVE  HealthInv'
    <2>0. doing[t].at # "write"
      BY <1>1 DEF GetClient
    <2>1. CASE telegram = "ok" /\ memory' = Noted([Reauthorized(memory) EXCEPT !.client = TRUE])
                 /\ Writes(t, "reactivate", ok, TRUE)
      <3> DEFINE m == [Reauthorized(memory) EXCEPT !.client = TRUE]
      <3>0. Reauthorized(memory) \in SessionHealth
        BY <1>0, Methods
      <3>1. /\ m \in SessionHealth
            /\ m.banned = Reauthorized(memory).banned
            /\ m.status = Reauthorized(memory).status
        BY <3>0 DEF SessionHealth
      <3>2. m.banned = memory.banned /\ (m.status = "error" => memory.status = "error" /\ memory.banned)
        BY <1>0, <3>1, Methods
      <3>3. UNCHANGED <<account, resync, sources, happened>> /\ memory' = Noted(m)
        BY <1>1, <2>1 DEF GetClient
      <3> HIDE DEF m
      <3>4. /\ memory' \in SessionHealth /\ memory'.banned = memory.banned
            /\ memory'.status = "error" => memory.status = "error"
            /\ listed /\ memory'.status = "error" => memory.banned
        BY <1>c, <3>1, <3>2, <3>3
      <3>5. QED
        BY <1>b, <2>0, <2>1, <3>3, <3>4
    <2>2. CASE memory' = Noted([Unauthorized(memory) EXCEPT !.client = FALSE])
                 /\ Writes(t, "error", failed, TRUE)
      <3> DEFINE m == [Unauthorized(memory) EXCEPT !.client = FALSE]
      <3>0. Unauthorized(memory) \in SessionHealth
        BY <1>0, Methods
      <3>1. m \in SessionHealth /\ m.banned = Unauthorized(memory).banned
        BY <3>0 DEF SessionHealth
      <3>2. m.banned = memory.banned /\ memory' = Noted(m)
        BY <1>0, <2>2, <3>1, Methods
      <3> HIDE DEF m
      <3>3. memory' \in SessionHealth /\ memory'.banned = memory.banned
        BY <1>c, <3>1, <3>2
      <3>4. UNCHANGED <<account, resync, sources, happened>>
        BY <1>1 DEF GetClient
      <3>5. QED
        BY <1>b, <2>0, <2>2, <3>3, <3>4
    <2>3. CASE Does(t, Rest) /\ UNCHANGED <<memory, past>>
      BY <1>0, <1>1, <1>a, <2>0, <2>3, Works DEF GetClient
    <2>4. QED
      BY <1>1, <2>1, <2>2, <2>3 DEF GetClient
  <1>2. ASSUME NEW t \in Workings, WriteRow(t) PROVE HealthInv'
    <2>0. doing[t] \in Work /\ doing[t].at = "write"
      BY <1>0, <1>2 DEF WriteRow
    <2>1. memory' \in SessionHealth
      BY <1>0, <1>2, Methods DEF WriteRow
    <2>2. account' \in AccountRow
      <3>1. RowAfter(doing[t].write) \in AccountRow
        <4>1. doing[t].write \in {"none", "cooldown", "banned", "error", "reactivate"}
          BY <2>0 DEF Work
        <4>2. account.status \in {"error", "banned"} => ~account.enabled
          BY DEF HealthInv
        <4>3. QED
          BY <1>0, <4>1, <4>2, RowAfterRow
      <3>2. QED
        BY <1>0, <1>2, <3>1 DEF WriteRow
    <2>3. past' \subseteq Past
      BY <1>0, <1>2 DEF WriteRow, Past
    <2>4. doing' \in [Workings -> Work]
      <3>1. [at |-> "write", write |-> "error", next |-> "down", locked |-> FALSE] \in Work
        BY DEF Work
      <3>2. doing[t].next # "raised" => At(doing[t].next) \in Work
        BY <2>0, Works DEF Work
      <3>3. QED
        BY <1>0, <1>2, <3>1, <3>2 DEF WriteRow, Does
    <2>5. UNCHANGED <<resync, sources>> /\ (UNCHANGED happened \/ Happens)
      BY <1>2 DEF WriteRow
    <2>6. HealthTypeOK'
      BY <1>0, <2>1, <2>2, <2>3, <2>4, <2>5, TypeStep
    <2>7. QED
      BY <1>2, <2>6, WrittenStep
  <1>3. CASE StopSupervisor
    <2>0. doing["supervisor"] \in Work
      BY <1>0 DEF Workings
    <2>1. account' \in AccountRow /\ (account'.status \in {"error", "banned"} => ~account'.enabled)
      <3>1. doing["supervisor"].write \in {"none", "cooldown", "banned", "error", "reactivate"}
        BY <2>0 DEF Work
      <3>2. account.status \in {"error", "banned"} => ~account.enabled
        BY DEF HealthInv
      <3>3. QED
        BY <1>0, <1>3, <3>1, <3>2, RowAfterRow DEF StopSupervisor
    <2>2. doing' \in [Workings -> Work] /\ past' \subseteq Past
      BY <1>0, <1>3, Works DEF StopSupervisor, Does, Past
    <2>3. HealthTypeOK'
      BY <1>0, <1>3, <2>1, <2>2, TypeStep DEF StopSupervisor
    <2>4. CASE doing["supervisor"].at = "write"
      <3>1. "lost" \in past'
        BY <1>3, <2>4 DEF StopSupervisor
      <3>2. NoStatement'
        BY <1>0, <1>3, Works DEF StopSupervisor, Does, HealthInv, NoStatement
      <3>3. QED
        BY <2>1, <2>3, <3>1, <3>2
           DEF HealthInv, OneWriter, BanUnderWay, ErrorUnderWay, ReactivatesTheHealthy, InOrder
    <2>5. CASE doing["supervisor"].at # "write"
      <3>1. past' = past /\ Does("supervisor", Rest) /\ UNCHANGED memory
        BY <1>3, <2>5 DEF StopSupervisor
      <3>2. \A u \in Workings : /\ doing'[u].at = "write" <=> doing[u].at = "write"
                                /\ doing'[u].at = "write" => doing'[u] = doing[u]
        BY <1>0, <2>5, <3>1, Works DEF Does
      <3>3. QED
        <4>1. account' = account
          BY <1>3, <2>5 DEF StopSupervisor, HealthInv, NoStatement, RowAfter, Workings
        <4>2. /\ UNCHANGED <<account, past, listed>>
              /\ memory'.banned = memory.banned /\ memory'.status = memory.status
          BY <1>3, <3>1, <4>1 DEF StopSupervisor, sources
        <4>3. memory' \in SessionHealth /\ "supervisor" \in Workings
          BY <1>0, <3>1 DEF Workings
        <4>4. QED
          BY <2>3, <2>5, <3>1, <4>2, <4>3, QuietStep, Works
    <2>6. QED
      BY <2>4, <2>5
  <1>4. CASE StartSupervisor
    <2>1. memory' \in SessionHealth /\ memory'.banned = memory.banned
            /\ (memory'.status = "error" => memory.status = "error")
      BY <1>0, <1>4 DEF StartSupervisor, SessionHealth
    <2>2. QED
      BY <1>4, <1>a, <2>1, Works DEF StartSupervisor, Workings
  <1>5. CASE Floods
    BY <1>0, <1>5, <1>b, Methods DEF Floods, Workings
  <1>6. CASE IsBanned
    BY <1>0, <1>6, <1>b, Methods DEF IsBanned, Workings
  <1>7. CASE IsUnauthorized
    <2>1. memory' \in SessionHealth /\ memory'.banned = Unauthorized(memory).banned
      BY <1>0, <1>7, Methods DEF IsUnauthorized, SessionHealth
    <2>2. QED
      BY <1>0, <1>7, <1>b, <2>1, Methods DEF IsUnauthorized, Workings
  <1>8. CASE LosesConnection
    BY <1>0, <1>8, <1>a, Methods, Works DEF LosesConnection, Workings
  <1>9. CASE SupervisorGoesOn
    BY <1>0, <1>9, <1>a, Works DEF SupervisorGoesOn, Workings
  <1>10. CASE MonitorLooks
    <2>1. PICK m \in {memory, FloodCleared(memory)} :
            /\ memory' = m
            /\ Does("monitor", At("get")) \/ Does("monitor", At("observe")) \/ UNCHANGED doing
      BY <1>10 DEF MonitorLooks
    <2>2. m \in SessionHealth /\ m.banned = memory.banned /\ (m.status = "error" => memory.status = "error")
      BY <1>0, <2>1, Methods
    <2>3. doing["monitor"].at # "write" /\ UNCHANGED <<account, resync, sources, past, happened>>
      BY <1>10, Works DEF MonitorLooks
    <2>4. QED
      BY <1>a, <2>1, <2>2, <2>3, Works DEF Workings
  <1>11. CASE MonitorObserves
    <2>1. memory' \in {memory, Connected(memory), Disconnected(memory)}
      BY <1>11 DEF MonitorObserves
    <2>2. QED
      BY <1>0, <1>11, <1>a, <2>1, Methods, Works DEF MonitorObserves, Workings
  <1>12. CASE CallerAsks
    BY <1>0, <1>12, <1>a, Works DEF CallerAsks, Workings
  <1>13. CASE CallerResolves
    <2>1. CASE memory' = Flooded(memory) /\ Writes("caller", "cooldown", "idle", FALSE)
      BY <1>0, <1>13, <1>b, <2>1, Methods DEF CallerResolves, Workings
    <2>2. CASE Does("caller", Rest) /\ UNCHANGED <<memory, past>>
      BY <1>0, <1>13, <1>a, <2>2, Works DEF CallerResolves, Workings
    <2>3. QED
      BY <1>13, <2>1, <2>2 DEF CallerResolves
  <1>14. CASE Reactivate
    <2>1. memory' \in SessionHealth /\ memory'.banned = memory.banned /\ memory'.status = memory.status
      BY <1>0, <1>14 DEF Reactivate, SessionHealth
    <2>2. QED
      BY <1>14, <1>a, <2>1, Works DEF Reactivate, Workings
  <1>15. CASE Probed
    <2>1. CASE telegram = "ok"
      <3> DEFINE m == Reauthorized(memory)
      <3>1. /\ memory' = Noted(m) /\ Writes("caller", "reactivate", "idle", FALSE)
            /\ doing["caller"].at # "write" /\ UNCHANGED <<account, resync, sources, happened>>
        BY <1>15, <2>1 DEF Probed
      <3>2. /\ m \in SessionHealth /\ m.banned = memory.banned
            /\ m.status = "error" => memory.status = "error" /\ memory.banned
        BY <1>0, Methods
      <3> HIDE DEF m
      <3>3. /\ memory' \in SessionHealth /\ memory'.banned = memory.banned
            /\ memory'.status = "error" => memory.status = "error"
            /\ listed /\ memory'.status = "error" => memory.banned
        BY <1>c, <3>1, <3>2
      <3>4. QED
        BY <1>b, <3>1, <3>3 DEF Workings
    <2>2. CASE telegram # "ok"
      BY <1>0, <1>15, <1>a, <2>2, Works DEF Probed, Workings
    <2>3. QED
      BY <2>1, <2>2
  <1>16. CASE ResyncReads
    <2>1. HealthTypeOK'
      BY <1>0, <1>16 DEF ResyncReads, HealthTypeOK, sources
    <2>2. QED
      BY <1>16, <2>1, RowStepOnly DEF ResyncReads, HealthInv, sources
  <1>17. CASE ResyncWrites
    <2>0. resync \in [at : {"off", "write"}, blocked : BOOLEAN, listed : BOOLEAN]
      BY <1>0 DEF HealthTypeOK
    <2>1. /\ account' \in AccountRow
          /\ account'.status \in {"error", "banned"} => ~account'.enabled
          /\ account'.status = "banned" => account.status = "banned"
          /\ resync.blocked \/ account.status \notin Runtime \/ account' = account
      BY <1>0, <1>17, <2>0
         DEF ResyncWrites, Upserted, Resolved, Runtime, AccountRow, DeadStatuses, HealthInv
    <2>2. past' = (IF resync.blocked THEN past \cup {"lost"} ELSE past) /\ past' \subseteq Past
      BY <1>0, <1>17 DEF ResyncWrites, Past
    <2>3. HealthTypeOK'
      BY <1>0, <1>17, <2>1, <2>2 DEF ResyncWrites, HealthTypeOK, sources, NoResync
    <2>4. QED
      BY <1>17, <2>1, <2>2, <2>3, RowStepOnly DEF ResyncWrites, Runtime, InOrder, sources
  <1>18. CASE SourcesChange
    <2>1. HealthTypeOK'
      <3>1. happened' \in 0 .. MaxHappenings
        BY <1>0, <1>18, HealthAssumption DEF SourcesChange, Happens, HealthTypeOK
      <3>2. QED
        BY <1>0, <1>18, <3>1 DEF SourcesChange, HealthTypeOK
    <2>2. QED
      BY <1>18, <2>1, RowStepOnly DEF SourcesChange, HealthInv
  <1>19. CASE CooldownsCleared
    <2>1. /\ account' \in AccountRow /\ account'.status \notin {"error", "banned"}
          /\ account.status \notin {"error", "banned"}
      BY <1>0, <1>19 DEF CooldownsCleared, CooldownCleared, AccountRow, DeadStatuses
    <2>2. HealthTypeOK'
      BY <1>0, <1>19, <2>1, TypeStep DEF CooldownsCleared
    <2>3. QED
      BY <1>19, <2>1, <2>2, RowStepOnly DEF CooldownsCleared, sources
  <1>20. CASE TelegramChanges
    <2>1. HealthTypeOK'
      <3>1. happened' \in 0 .. MaxHappenings
        BY <1>0, <1>20, HealthAssumption DEF TelegramChanges, Happens, HealthTypeOK
      <3>2. QED
        BY <1>0, <1>20, <3>1 DEF TelegramChanges, HealthTypeOK
    <2>2. QED
      BY <1>20, <2>1, RowStepOnly DEF TelegramChanges, HealthInv
  <1>21. CASE HealthRestart
    <2>1. doing' \in [Workings -> Work] /\ \A t \in Workings : doing'[t] = Rest
      BY <1>21, Works DEF HealthRestart
    <2>2. HealthTypeOK'
      <3>1. Unborn \in SessionHealth
        BY DEF Unborn, SessionHealth
      <3>2. NoResync \in [at : {"off", "write"}, blocked : BOOLEAN, listed : BOOLEAN]
        BY DEF NoResync
      <3>3. happened' \in 0 .. MaxHappenings
        BY <1>0, <1>21, HealthAssumption DEF HealthRestart, Happens, HealthTypeOK
      <3>4. QED
        BY <1>0, <1>21, <2>1, <3>1, <3>2, <3>3 DEF HealthRestart, HealthTypeOK, Past, sources
    <2>3. "lost" \in past' /\ account' = account
      BY <1>21 DEF HealthRestart
    <2>4. NoStatement'
      BY <2>1, Works DEF NoStatement
    <2>5. QED
      BY <2>2, <2>3, <2>4 DEF HealthInv, OneWriter, BanUnderWay, ErrorUnderWay, ReactivatesTheHealthy, InOrder
  <1>22. CASE UNCHANGED healthVars
    <2>1. HealthTypeOK'
      BY <1>0, <1>22 DEF healthVars, HealthTypeOK, sources
    <2>2. QED
      BY <1>22, <2>1, RowStepOnly DEF healthVars, HealthInv, sources
  <1>23. CASE DispatcherReports
    <2>0. doing["dispatcher"].at # "write" /\ UNCHANGED <<account, resync, sources, happened>>
      BY <1>23, Works DEF DispatcherReports
    <2>1. CASE Writes("dispatcher", "cooldown", "idle", FALSE) /\ UNCHANGED memory
      BY <1>0, <1>b, <2>0, <2>1 DEF Workings
    <2>2. CASE ReportsBan
      <3> DEFINE w == [At("write") EXCEPT !.write = "banned"]
                 m == MarkedBanned(memory)
      <3>1. w \in Work /\ w.at = "write" /\ w.write = "banned"
        BY DEF At, Rest, Work
      <3>2. m \in SessionHealth /\ m.banned /\ (m.status = "error" => memory.status = "error")
        BY <1>0, Methods
      <3>3. /\ memory' \in {memory, Noted(m)} /\ Does("dispatcher", w) /\ past \subseteq past'
            /\ memory'.banned \/ "alone" \in past'
            /\ "disorder" \in past' \/ NothingWritten
            /\ past' \subseteq Past
        BY <1>0, <2>2 DEF ReportsBan, Past
      <3> HIDE DEF w, m
      <3>4. memory' \in SessionHealth /\ (memory.banned => memory'.banned)
              /\ (memory'.status = "error" => memory.status = "error")
        BY <1>0, <1>c, <3>2, <3>3
      <3>5. doing' \in [Workings -> Work]
        BY <1>0, <3>1, <3>3 DEF Does
      <3>6. account' \in AccountRow /\ UNCHANGED <<resync, sources>> /\ UNCHANGED happened
        BY <1>0, <2>0
      <3>7. HealthTypeOK'
        BY <1>0, <3>3, <3>4, <3>5, <3>6, TypeStep
      <3>8. "disorder" \in past' \/ \A u \in Workings \ {"dispatcher"} : doing[u].at # "write"
        BY <3>3 DEF NothingWritten
      <3>9. "dispatcher" \in Workings /\ UNCHANGED <<account, listed>>
        BY <2>0 DEF Workings, sources
      <3>10. QED
        BY <2>0, <3>1, <3>3, <3>4, <3>7, <3>8, <3>9, WritingStep
    <2>3. CASE memory' = Noted(Unauthorized(memory)) /\ Writes("dispatcher", "error", "idle", FALSE)
      <3>1. Unauthorized(memory) \in SessionHealth /\ Unauthorized(memory).banned = memory.banned
        BY <1>0, Methods
      <3>2. memory' \in SessionHealth /\ memory'.banned = memory.banned
        BY <1>c, <2>3, <3>1
      <3>3. QED
        BY <1>b, <2>0, <2>3, <3>2 DEF Workings
    <2>4. QED
      BY <1>23, <2>1, <2>2, <2>3 DEF DispatcherReports
  <1>24. CASE LeavesClump
    <2>0. /\ memory' \in {Unborn, [Unborn EXCEPT !.client = memory.client]}
          /\ account' \in {account, RowAfter(doing["supervisor"].write)}
          /\ \A t \in Workings : doing'[t] = IF t = "supervisor" \/ doing[t].at # "write" THEN Rest
                                              ELSE [doing[t] EXCEPT !.next = "idle"]
          /\ doing["supervisor"] \in Work
          /\ past \subseteq past'
          /\ doing["supervisor"].at = "write" => "lost" \in past'
          /\ memory.banned \/ account.status = "banned" => "renewed" \in past'
      BY <1>0, <1>24 DEF LeavesClump, Workings
    <2>1. memory' \in SessionHealth /\ ~memory'.banned /\ memory'.status = "starting"
      <3>1. memory.client \in BOOLEAN /\ Unborn \in SessionHealth
        BY <1>0 DEF Unborn, SessionHealth
      <3>2. CASE memory' = Unborn
        BY <3>1, <3>2 DEF Unborn
      <3>3. CASE memory' = [Unborn EXCEPT !.client = memory.client]
        BY <3>1, <3>3 DEF Unborn, SessionHealth
      <3>4. QED
        BY <2>0, <3>2, <3>3
    <2>2. account' \in AccountRow /\ (account'.status \in {"error", "banned"} => ~account'.enabled)
      <3>1. doing["supervisor"].write \in {"none", "cooldown", "banned", "error", "reactivate"}
        BY <2>0 DEF Work
      <3>2. account.status \in {"error", "banned"} => ~account.enabled
        BY DEF HealthInv
      <3>3. QED
        BY <1>0, <2>0, <3>1, <3>2, RowAfterRow
    <2>3. /\ \A t \in Workings : doing'[t] \in Work /\ (doing'[t].at # "write" => doing'[t].write = "none")
          /\ \A t \in Workings : doing'[t].at = "write" =>
                doing[t].at = "write" /\ doing'[t].write = doing[t].write
      <3> SUFFICES ASSUME NEW t \in Workings
                   PROVE  /\ doing'[t] \in Work /\ (doing'[t].at # "write" => doing'[t].write = "none")
                          /\ doing'[t].at = "write" =>
                                doing[t].at = "write" /\ doing'[t].write = doing[t].write
        OBVIOUS
      <3>1. CASE t = "supervisor" \/ doing[t].at # "write"
        BY <2>0, <3>1, Works
      <3>2. CASE ~(t = "supervisor" \/ doing[t].at # "write")
        <4>1. doing[t] \in Work /\ doing'[t] = [doing[t] EXCEPT !.next = "idle"]
          BY <1>0, <2>0, <3>2
        <4>2. QED
          BY <3>2, <4>1 DEF Work
      <3>3. QED
        BY <3>1, <3>2
    <2>4. HealthTypeOK'
      <3>1. doing' \in [Workings -> Work]
        BY <1>24, <2>3 DEF LeavesClump
      <3>2. past' \subseteq Past
        BY <1>0, <1>24 DEF LeavesClump, Past
      <3>3. UNCHANGED <<resync, telegram, blocked>> /\ listed' = FALSE /\ Happens
        BY <1>24 DEF LeavesClump
      <3>5. happened' \in 0 .. MaxHappenings
        BY <1>0, <3>3, HealthAssumption DEF Happens, HealthTypeOK
      <3>4. QED
        BY <1>0, <2>1, <2>2, <3>1, <3>2, <3>3, <3>5 DEF HealthTypeOK
    <2>5. NoStatement'
      BY <2>3 DEF NoStatement
    <2>6. OneWriter'
      BY <2>0, <2>3 DEF HealthInv, OneWriter, InOrder
    <2>7. BanUnderWay'
      <3>1. Pending("banned")' => Pending("banned")
        BY <2>3 DEF Pending
      <3>2. doing["supervisor"].at # "write" => account' = account
        BY <1>0, <2>0 DEF HealthInv, NoStatement, RowAfter, Workings
      <3>3. CASE "lost" \in past'
        BY <2>1, <3>3 DEF BanUnderWay
      <3>4. CASE "lost" \notin past'
        BY <2>0, <2>1, <3>1, <3>2, <3>4 DEF HealthInv, BanUnderWay
      <3>5. QED
        BY <3>3, <3>4
    <2>8. ErrorUnderWay' /\ ReactivatesTheHealthy'
      BY <2>1 DEF ErrorUnderWay, ReactivatesTheHealthy
    <2>9. QED
      BY <2>2, <2>4, <2>5, <2>6, <2>7, <2>8 DEF HealthInv
  <1>25. CASE EntersClump
    <2>0. ASSUME ~memory.banned PROVE HealthInv'
      <3>1. memory' \in SessionHealth /\ ~memory'.banned /\ memory'.status = "starting"
        BY <1>0, <1>25 DEF EntersClump, Unborn, SessionHealth
      <3>2. HealthTypeOK'
        <4>1. happened' \in 0 .. MaxHappenings
          BY <1>0, <1>25, HealthAssumption DEF EntersClump, Happens, HealthTypeOK
        <4>2. QED
          BY <1>0, <1>25, <3>1, <4>1 DEF EntersClump, HealthTypeOK
      <3>3. \A write : Pending(write)' <=> Pending(write)
        BY <1>25 DEF EntersClump, Pending
      <3>4. UNCHANGED <<account, doing, past>>
        BY <1>25 DEF EntersClump
      <3>5. QED
        BY <2>0, <3>1, <3>2, <3>3, <3>4
           DEF HealthInv, NoStatement, OneWriter, BanUnderWay, ErrorUnderWay,
               ReactivatesTheHealthy, InOrder
    <2>1. ~memory.banned
      BY <1>25 DEF EntersClump, Unlisted
    <2>2. QED
      BY <2>0, <2>1
  <1>26. QED
    BY <1>1, <1>2, <1>3, <1>4, <1>5, <1>6, <1>7, <1>8, <1>9, <1>10, <1>11, <1>12, <1>13, <1>14,
       <1>15, <1>16, <1>17, <1>18, <1>19, <1>20, <1>21, <1>22, <1>23, <1>24, <1>25 DEF HealthNext, Workings

\* It holds when the process starts.
LEMMA InitHealthInv == HealthInit => HealthInv
  <1> SUFFICES ASSUME HealthInit PROVE HealthInv
    OBVIOUS
  <1>1. Unborn \in SessionHealth /\ Unborn.status = "starting" /\ ~Unborn.banned
    BY DEF Unborn, SessionHealth
  <1>2. FreshAccount \in AccountRow /\ FreshAccount.status = "active"
    BY DEF FreshAccount, AccountRow, DeadStatuses
  <1>3. HealthTypeOK
    <2>1. NoResync \in [at : {"off", "write"}, blocked : BOOLEAN, listed : BOOLEAN]
      BY DEF NoResync
    <2>2. happened \in 0 .. MaxHappenings
      BY HealthAssumption DEF HealthInit
    <2>3. doing \in [Workings -> Work]
      BY Works DEF HealthInit
    <2>4. QED
      BY <1>1, <1>2, <2>1, <2>2, <2>3 DEF HealthInit, HealthTypeOK
  <1>4. \A t \in Workings : doing[t] = Rest
    BY DEF HealthInit
  <1>5. QED
    BY <1>1, <1>2, <1>3, <1>4, Works
       DEF HealthInit, HealthInv, NoStatement, OneWriter, BanUnderWay, ErrorUnderWay,
           ReactivatesTheHealthy, Pending, InOrder

\* Only a session of a clump is watched and marked.
LEMMA NextUnlisted == HealthTypeOK /\ Unlisted /\ [HealthNext]_healthVars => Unlisted'
  <1> SUFFICES ASSUME HealthTypeOK, Unlisted, [HealthNext]_healthVars, ~listed'
               PROVE  doing'["supervisor"].at = "idle" /\ ~memory'.banned
    BY DEF Unlisted
  <1>0. memory \in SessionHealth /\ doing \in [Workings -> Work]
    BY DEF HealthTypeOK
  <1>1. CASE LeavesClump
    <2>1. memory' \in {Unborn, [Unborn EXCEPT !.client = memory.client]} /\ doing'["supervisor"] = Rest
      BY <1>1 DEF LeavesClump, Workings
    <2>2. QED
      BY <2>1 DEF Unborn, Rest
  <1>2. CASE HealthRestart
    BY <1>2 DEF HealthRestart, Unborn, Rest, Workings
  <1>3. CASE ~LeavesClump /\ ~HealthRestart
    <2>1. ~listed /\ UNCHANGED listed
      <3>1. ASSUME NEW t, NEW ok, NEW failed, GetClient(t, ok, failed) PROVE UNCHANGED listed
        BY <3>1 DEF GetClient, sources
      <3>2. ASSUME NEW t, WriteRow(t) PROVE UNCHANGED listed
        BY <3>2 DEF WriteRow, sources
      <3>3. /\ StartSupervisor \/ StopSupervisor \/ Floods \/ IsBanned => UNCHANGED listed
            /\ IsUnauthorized \/ LosesConnection \/ SupervisorGoesOn => UNCHANGED listed
            /\ MonitorLooks \/ MonitorObserves => UNCHANGED listed
        <4>1. StartSupervisor \/ StopSupervisor \/ Floods \/ IsBanned => UNCHANGED listed
          BY DEF StartSupervisor, StopSupervisor, Floods, IsBanned, sources
        <4>2. IsUnauthorized \/ LosesConnection \/ SupervisorGoesOn => UNCHANGED listed
          BY DEF IsUnauthorized, LosesConnection, SupervisorGoesOn, sources
        <4>3. MonitorLooks => UNCHANGED listed
          BY Zenon DEF MonitorLooks, sources
        <4>4. MonitorObserves => UNCHANGED listed
          BY Zenon DEF MonitorObserves, sources
        <4>5. QED
          BY <4>1, <4>2, <4>3, <4>4
      <3>4. /\ CallerAsks \/ CallerResolves \/ Reactivate \/ Probed => UNCHANGED listed
            /\ DispatcherReports \/ ResyncReads \/ ResyncWrites => UNCHANGED listed
            /\ SourcesChange \/ CooldownsCleared \/ TelegramChanges => UNCHANGED listed
            /\ UNCHANGED healthVars => UNCHANGED listed
        <4>1. CallerAsks \/ CallerResolves \/ Reactivate \/ Probed => UNCHANGED listed
          BY DEF CallerAsks, CallerResolves, Reactivate, Probed, sources
        <4>2. DispatcherReports \/ ResyncReads \/ ResyncWrites => UNCHANGED listed
          BY DEF DispatcherReports, ResyncReads, ResyncWrites, sources
        <4>3. SourcesChange \/ CooldownsCleared \/ TelegramChanges => UNCHANGED listed
          BY DEF SourcesChange, CooldownsCleared, TelegramChanges, sources
        <4>4. UNCHANGED healthVars => UNCHANGED listed
          BY DEF healthVars, sources
        <4>5. QED
          BY <4>1, <4>2, <4>3, <4>4
      <3>5. ~EntersClump
        BY DEF EntersClump
      <3>6. UNCHANGED listed
        BY <1>3, <3>1, <3>2, <3>3, <3>4, <3>5 DEF HealthNext
      <3>7. QED
        BY <3>6
    <2>2. doing["supervisor"].at = "idle" /\ ~memory.banned
      BY <2>1 DEF Unlisted
    <2>3. \A n \in {Connected(memory), Disconnected(memory), Flooded(memory), FloodCleared(memory)} :
            ~n.banned
      BY <1>0, <2>2, Methods
    <2>4. \A m \in SessionHealth : ~Noted(m).banned
      BY <1>0, <2>1, <2>2 DEF Noted, SessionHealth
    <2>5. /\ [Reauthorized(memory) EXCEPT !.client = TRUE] \in SessionHealth
          /\ [Unauthorized(memory) EXCEPT !.client = FALSE] \in SessionHealth
          /\ {Reauthorized(memory), Unauthorized(memory), MarkedBanned(memory)} \subseteq SessionHealth
      <3>1. {Reauthorized(memory), Unauthorized(memory), MarkedBanned(memory)} \subseteq SessionHealth
        BY <1>0, Methods
      <3>2. QED
        BY <3>1 DEF SessionHealth
    <2>6. ASSUME NEW t \in Workings \ {"supervisor"}, NEW w, Does(t, w)
          PROVE  doing'["supervisor"].at = "idle"
      BY <1>0, <2>2, <2>6 DEF Does, Workings
    <2>7. {"monitor", "caller", "dispatcher"} = Workings \ {"supervisor"}
      BY DEF Workings
    <2>8. ASSUME NEW t \in Workings, NEW ok, NEW failed, GetClient(t, ok, failed)
          PROVE  doing'["supervisor"].at = "idle" /\ ~memory'.banned
      <3>1. t \in Workings \ {"supervisor"}
        BY <2>2, <2>8 DEF GetClient
      <3>2. ~memory'.banned
        BY <2>2, <2>4, <2>5, <2>8 DEF GetClient
      <3>3. \E w : Does(t, w)
        BY <2>8 DEF GetClient, Writes
      <3>4. QED
        BY <2>6, <3>1, <3>2, <3>3
    <2>9. ASSUME NEW t \in Workings, WriteRow(t)
          PROVE  doing'["supervisor"].at = "idle" /\ ~memory'.banned
      <3>1. t \in Workings \ {"supervisor"}
        BY <2>2, <2>9 DEF WriteRow
      <3>2. ~memory'.banned
        <4>1. memory' \in {Unauthorized(memory), Connected(memory), memory}
          BY <2>9 DEF WriteRow
        <4>2. Unauthorized(memory).banned = memory.banned
          BY <1>0, Methods
        <4>3. QED
          BY <2>2, <2>3, <4>1, <4>2
      <3>3. \E w : Does(t, w)
        BY <2>9 DEF WriteRow
      <3>4. QED
        BY <2>6, <3>1, <3>2, <3>3
    <2>10. CASE DispatcherReports
      <3>1. ~memory'.banned
        BY <2>2, <2>4, <2>5, <2>10 DEF DispatcherReports, ReportsBan
      <3>2. \E w : Does("dispatcher", w)
        BY <2>10 DEF DispatcherReports, ReportsBan, Writes
      <3>3. QED
        BY <2>6, <2>7, <3>1, <3>2
    <2>11. CASE Probed
      <3>1. ~memory'.banned
        BY <2>2, <2>4, <2>5, <2>11 DEF Probed
      <3>2. \E w : Does("caller", w)
        BY <2>11 DEF Probed, Writes
      <3>3. QED
        BY <2>6, <2>7, <3>1, <3>2
    <2>12. CASE MonitorObserves
      <3>1. ~memory'.banned
        BY <2>2, <2>3, <2>12 DEF MonitorObserves
      <3>2. QED
        BY <2>6, <2>7, <2>12, <3>1 DEF MonitorObserves
    <2>13. CASE CallerAsks \/ CallerResolves \/ Reactivate
      <3>1. ~memory'.banned
        BY <1>0, <2>2, <2>3, <2>13 DEF CallerAsks, CallerResolves, Reactivate, SessionHealth
      <3>2. \E w : Does("caller", w)
        BY <2>13 DEF CallerAsks, CallerResolves, Reactivate, Writes
      <3>3. QED
        BY <2>6, <2>7, <3>1, <3>2
    <2>14. CASE \/ StartSupervisor \/ StopSupervisor \/ Floods \/ IsBanned \/ IsUnauthorized
               \/ LosesConnection \/ SupervisorGoesOn \/ MonitorLooks \/ EntersClump
      <3>1. StopSupervisor => doing'["supervisor"] = Rest /\ UNCHANGED memory
        BY <1>0 DEF StopSupervisor, Does, Workings
      <3>2. QED
        BY <2>1, <2>2, <2>14, <3>1
           DEF StartSupervisor, StopSupervisor, Floods, IsBanned, IsUnauthorized,
               LosesConnection, SupervisorGoesOn, MonitorLooks, EntersClump, Rest
    <2>15. CASE \/ ResyncReads \/ ResyncWrites \/ SourcesChange \/ CooldownsCleared
               \/ TelegramChanges \/ UNCHANGED healthVars
      <3>1. UNCHANGED <<memory, doing>>
        BY <2>15 DEF ResyncReads, ResyncWrites, SourcesChange, CooldownsCleared, TelegramChanges,
                     healthVars
      <3>2. QED
        BY <2>2, <3>1
    <2>16. CASE \/ GetClient("supervisor", "listen", "raised")
               \/ GetClient("monitor", "idle", "idle")
               \/ GetClient("caller", IF listed THEN "resolve" ELSE "idle", "idle")
      BY <2>8, <2>16 DEF Workings
    <2>17. QED
      BY <1>3, <2>9, <2>10, <2>11, <2>12, <2>13, <2>14, <2>15, <2>16 DEF HealthNext
  <1>4. QED
    BY <1>1, <1>2, <1>3

\* The inductive invariant: what memory and table differ in is under way.
THEOREM HealthInvariant == HealthSpec => [](HealthInv /\ Unlisted)
  <1>1. HealthInit => Unlisted
    BY DEF HealthInit, Unlisted
  <1>2. HealthInv => HealthTypeOK
    BY DEF HealthInv
  <1>3. HealthInv /\ Unlisted /\ [HealthNext]_healthVars => (HealthInv /\ Unlisted)'
    BY <1>2, NextHealthInv, NextUnlisted
  <1>4. QED
    BY <1>1, <1>3, InitHealthInv, PTL DEF HealthSpec

\* Whatever supervisor, monitor, callers, dispatcher and resync do of one session,
\* and wherever it leaves and enters a clump, memory and table agree on a ban and on
\* an error once no statement is under way, but for what HealthAgrees excepts: what
\* memory holds is lost by the table only with a statement, and what the table holds
\* is missing in memory only then, after a report to the table alone or a new clump.
THEOREM MemoryAndTableAgree == HealthSpec => []HealthAgrees
  <1>1. HealthInv => HealthAgrees
    <2> SUFFICES ASSUME HealthInv, NothingWritten PROVE BanAgrees /\ ErrorDisables
      BY DEF HealthAgrees, BanAgrees, ErrorDisables
    <2>1. \A write : ~Pending(write)
      BY DEF NothingWritten, Pending
    <2>2. QED
      BY <2>1 DEF HealthInv, BanUnderWay, ErrorUnderWay, BanAgrees, ErrorDisables, InOrder
  <1>2. QED
    BY <1>1, HealthInvariant, PTL

\* No statement of a task that learnt of something else brings a banned account back.
THEOREM BansOutliveStatements == HealthSpec => BannedStaysOut
  <1> DEFINE StaysBanned == account.status = "banned"
                => account'.status = "banned" \/ (account'.status = "disabled" /\ resync.blocked)
  <1>1. HealthInv /\ [HealthNext]_healthVars => [StaysBanned]_healthVars
    <2> SUFFICES ASSUME HealthInv, [HealthNext]_healthVars, account.status = "banned",
                        account' # account
                 PROVE  account'.status = "banned" \/ (account'.status = "disabled" /\ resync.blocked)
      OBVIOUS
    <2>0. account \in AccountRow /\ ~account.enabled /\ doing \in [Workings -> Work]
      BY DEF HealthInv, HealthTypeOK
    <2>1. \A t \in Workings : RowAfter(doing[t].write).status = "banned"
      <3>1. \A t \in Workings : doing[t].write \in {"none", "cooldown", "banned", "error", "reactivate"}
        BY <2>0 DEF Work
      <3>2. QED
        BY <2>0, <3>1, RowAfterRow
    <2>2. CASE \E t \in Workings : WriteRow(t)
      BY <2>1, <2>2 DEF WriteRow
    <2>3. CASE StopSupervisor \/ LeavesClump
      BY <2>1, <2>3 DEF StopSupervisor, LeavesClump, Workings
    <2>4. CASE ResyncWrites
      BY <2>0, <2>4 DEF ResyncWrites, Upserted, Resolved, Runtime, AccountRow
    <2>5. CASE CooldownsCleared
      BY <2>5 DEF CooldownsCleared
    <2>6. QED
      BY <2>2, <2>3, <2>4, <2>5
         DEF HealthNext, healthVars, GetClient, StartSupervisor, Floods, IsBanned, IsUnauthorized,
             LosesConnection, SupervisorGoesOn, MonitorLooks, MonitorObserves, CallerAsks,
             CallerResolves, Reactivate, Probed, DispatcherReports, EntersClump, ResyncReads,
             SourcesChange, TelegramChanges, HealthRestart
  <1>2. QED
    BY <1>1, HealthInvariant, PTL DEF HealthSpec, BannedStaysOut

-----------------------------------------------------------------------------
\* Resources: checks, charges and the account.

ResourcesSpec == ResourcesInit /\ [][ResourcesNext]_resourceVars

\* Runners that have the account, or had it when they began.
RunnersAtWork == {r \in Runners : HasReserved(r)}

\* o has been found available for r, and is not charged yet.
Passed(r, o) ==
    \/ runner[r].pc = "check" /\ o \in runner[r].ops \ runner[r].todo
    \/ runner[r].pc = "reserve" /\ runner[r].kind \in TwoAccounts /\ o \in runner[r].ops
    \/ runner[r].pc = "charge" /\ o \in runner[r].todo
PassedRunners(o) == {r \in Runners : Passed(r, o)}

\* The charges to come count as those made.
ChargesWithin(o) ==
    \E k \in UsersOf(o) :
       used[o] + MostUnits[o] * Cardinality(PassedRunners(o)) <= Usable(o, k) + MostUnits[o] * Racers(o)

OpsFit(r) ==
    runner[r].pc # "idle" =>
       /\ runner[r].kind \in Kinds /\ runner[r].ops \subseteq OpsOf[runner[r].kind]
       /\ runner[r].todo \subseteq runner[r].ops

ResourcesInv ==
    /\ ResourcesTypeOK
    /\ \A r \in Runners : OpsFit(r)
    /\ \A o \in UsageOps : rph[o] <= RphOf[o]
    /\ Cardinality(RunnersAtWork \ {holder}) <= overruns
    /\ \A o \in UsageOps : Limited(o) => ChargesWithin(o)

-----------------------------------------------------------------------------
\* The arithmetic of the view.
LEMMA Monotone == ASSUME NEW a \in Nat, NEW b \in Nat, NEW k \in Nat, a <= b
                  PROVE  a * k <= b * k
  OBVIOUS

\* The limit that the code works with grows with the one configured.
LEMMA EffectiveGrows ==
    ASSUME NEW a \in Nat, NEW b \in Nat, a <= b
    PROVE  Effective(a) \in Nat /\ Effective(b) \in Nat /\ Effective(a) <= Effective(b)
  <1> DEFINE k == 100 - Reserve
  <1>1. k \in Nat
    BY ResourcesAssumption
  <1> HIDE DEF k
  <1>2. a * k \in Nat /\ b * k \in Nat /\ a * k <= b * k
    BY <1>1, Monotone
  <1>3. \A x, y \in Nat : x <= y => x \div 100 \in Nat /\ y \div 100 \in Nat /\ x \div 100 <= y \div 100
    OBVIOUS
  <1>4. QED
    BY <1>2, <1>3 DEF Effective, k

\* What has been used of an op that is available is within the usable part.
UsablePart(full, t) == (full * (20001 - 200 * t)) \div 20000
LEMMA AvailableWithin ==
    ASSUME NEW t \in 0 .. 100, NEW limit \in Nat, NEW full \in Nat, NEW spent \in Nat,
           limit <= full /\ (limit > 0 \/ t > 0) /\ Hundredths(limit, spent) >= 100 * t
    PROVE  spent <= UsablePart(full, t)
  <1> DEFINE k == 20001 - 200 * t
             h == (20000 * (limit - spent) + limit) \div (2 * limit)
  <1>1. k \in Nat /\ t \in Nat
    OBVIOUS
  <1>2. limit # 0 /\ h >= 100 * t
    BY <1>1 DEF Hundredths
  <1>3. h \in Int /\ h * (2 * limit) <= 20000 * (limit - spent) + limit
    <2> DEFINE n == 20000 * (limit - spent) + limit
               d == 2 * limit
    <2>1. n \in Int /\ d \in Nat /\ d > 0 /\ h = n \div d
      BY <1>2
    <2> HIDE DEF n, d, h
    <2>2. h \in Int /\ h * d <= n
      BY <2>1
    <2>3. QED
      BY <2>2 DEF n, d
  <1>4. (100 * t) * (2 * limit) <= h * (2 * limit)
    <2> HIDE DEF h
    <2>1. \A x, y, z \in Int : z >= 0 /\ x <= y => x * z <= y * z
      OBVIOUS
    <2>2. QED
      BY <1>1, <1>2, <1>3, <2>1
  <1>5. 20000 * spent <= limit * k
    <2> HIDE DEF h
    <2>1. (100 * t) * (2 * limit) = 200 * (t * limit)
      BY <1>1
    <2>2. limit * k = 20001 * limit - 200 * (t * limit)
      BY <1>1
    <2>3. t * limit \in Nat
      BY <1>1
    <2> HIDE DEF k
    <2>4. h * (2 * limit) \in Int
      BY <1>3
    <2>5. QED
      BY <1>3, <1>4, <2>1, <2>2, <2>3, <2>4
  <1>6. limit * k <= full * k /\ full * k \in Nat /\ limit * k \in Nat
    <2> HIDE DEF k
    <2>1. QED
      BY <1>1, Monotone
  <1>7. \A x, y \in Nat : 20000 * x <= y => x <= y \div 20000
    OBVIOUS
  <1>8. QED
    <2> HIDE DEF k
    <2>1. 20000 * spent <= full * k
      BY <1>5, <1>6
    <2>2. spent <= (full * k) \div 20000
      BY <2>1, <1>6, <1>7
    <2>3. QED
      BY <2>2 DEF k, UsablePart
-----------------------------------------------------------------------------
\* ResourcesTypeOK is inductive.
RunnerType == [pc : {"idle", "reserve", "check", "charge", "execute"}, kind : Kinds \cup {"none"},
               ops : SUBSET UsageOps, todo : SUBSET UsageOps]

\* What a step of one runner makes of it.
LEMMA RunnerSteps ==
    ASSUME ResourcesTypeOK, NEW r \in Runners, \A v \in Runners : OpsFit(v),
           \/ ReadTaskType(r) \/ ReserveAccount(r) \/ CheckOp(r)
           \/ TryAcquire(r) \/ RecordUsage(r) \/ AttemptEnds(r)
    PROVE  /\ runner' \in [Runners -> RunnerType] /\ OpsFit(r)'
           /\ \A v \in Runners \ {r} : runner'[v] = runner[v]
           /\ UNCHANGED <<rph, disabledOps, overruns>>
           /\ holder' \in Runners \cup {Unreserved} /\ slotFree' \in BOOLEAN
  <1> USE DEF ResourcesTypeOK, NoRunner, Turn, Leave, Goes, LetAccountGo, OpsFit, RunnerType
  <1>0. OpsFit(r) /\ runner \in [Runners -> RunnerType]
    OBVIOUS
  <1>1. CASE ReadTaskType(r)
    <2>1. PICK kind \in Kinds :
             runner' = [runner EXCEPT ![r] =
                Turn(IF kind \in TwoAccounts THEN "check" ELSE "reserve", kind, OpsOf[kind] \ disabledOps)]
      BY <1>1 DEF ReadTaskType
    <2>2. OpsOf[kind] \ disabledOps \in SUBSET UsageOps
      BY ResourcesAssumption
    <2>3. QED
      BY <1>1, <2>1, <2>2 DEF ReadTaskType
  <1>2. CASE ReserveAccount(r)
    BY <1>0, <1>2 DEF ReserveAccount
  <1>3. CASE CheckOp(r)
    <2>1. UNCHANGED <<rph, disabledOps, overruns, slotFree>> /\ runner[r].pc = "check"
      BY <1>3 DEF CheckOp
    <2>2. \/ \E o \in runner[r].todo : holder' = holder /\ runner' = [runner EXCEPT ![r].todo = @ \ {o}]
          \/ Leave(r)
      BY <1>3 DEF CheckOp
    <2>3. CASE Leave(r)
      BY <2>1, <2>3
    <2>4. CASE \E o \in runner[r].todo : holder' = holder /\ runner' = [runner EXCEPT ![r].todo = @ \ {o}]
      BY <1>0, <2>1, <2>4
    <2>5. QED
      BY <2>2, <2>3, <2>4
  <1>4. CASE TryAcquire(r)
    <2>1. UNCHANGED <<rph, disabledOps, overruns>> /\ runner[r].pc = "check" /\ slotFree' \in BOOLEAN
      BY <1>4 DEF TryAcquire
    <2>2. (\E pc \in {"reserve", "charge"} : Goes(r, pc) /\ holder' = holder) \/ Leave(r)
      BY <1>4, Zenon DEF TryAcquire
    <2>3. CASE Leave(r)
      BY <1>0, <2>1, <2>3
    <2>4. ASSUME NEW pc \in {"reserve", "charge"}, Goes(r, pc), holder' = holder
          PROVE  runner' \in [Runners -> RunnerType] /\ OpsFit(r)'
                 /\ \A v \in Runners \ {r} : runner'[v] = runner[v]
      BY <1>0, <2>1, <2>4
    <2>5. QED
      BY <2>1, <2>2, <2>3, <2>4
  <1>5. CASE RecordUsage(r)
    <2>1. UNCHANGED <<rph, disabledOps, overruns, slotFree, holder>> /\ runner[r].pc = "charge"
      BY <1>5 DEF RecordUsage
    <2>2. PICK o \in runner[r].todo :
             IF runner[r].todo = {o} THEN Goes(r, "execute")
                                     ELSE runner' = [runner EXCEPT ![r].todo = @ \ {o}]
      BY <1>5 DEF RecordUsage
    <2>3. QED
      BY <1>0, <2>1, <2>2
  <1>6. CASE AttemptEnds(r)
    BY <1>0, <1>6 DEF AttemptEnds
  <1>7. QED
    BY <1>1, <1>2, <1>3, <1>4, <1>5, <1>6

\* Only record_for_task adds usage.
LEMMA UsageKept ==
    ASSUME NEW r \in Runners,
           ReadTaskType(r) \/ ReserveAccount(r) \/ CheckOp(r) \/ TryAcquire(r) \/ AttemptEnds(r)
    PROVE  used' = used
  BY DEF ReadTaskType, ReserveAccount, CheckOp, TryAcquire, AttemptEnds

LEMMA ResourcesTyped ==
    ASSUME ResourcesInv, [ResourcesNext]_resourceVars
    PROVE  ResourcesTypeOK' /\ \A r \in Runners : OpsFit(r)'
  <1> USE DEF ResourcesInv
  <1>1. ASSUME NEW r \in Runners, \/ ReadTaskType(r) \/ ReserveAccount(r) \/ CheckOp(r)
                                  \/ TryAcquire(r) \/ AttemptEnds(r)
        PROVE  ResourcesTypeOK' /\ \A v \in Runners : OpsFit(v)'
    <2>1. /\ runner' \in [Runners -> RunnerType] /\ OpsFit(r)'
          /\ \A v \in Runners \ {r} : runner'[v] = runner[v]
          /\ UNCHANGED <<rph, disabledOps, overruns>>
          /\ holder' \in Runners \cup {Unreserved} /\ slotFree' \in BOOLEAN
      BY <1>1, RunnerSteps
    <2>2. used' = used
      BY <1>1, UsageKept
    <2>3. QED
      BY <2>1, <2>2 DEF ResourcesTypeOK, RunnerType, OpsFit
  <1>2. ASSUME NEW r \in Runners, RecordUsage(r)
        PROVE  ResourcesTypeOK' /\ \A v \in Runners : OpsFit(v)'
    <2>1. /\ runner' \in [Runners -> RunnerType] /\ OpsFit(r)'
          /\ \A v \in Runners \ {r} : runner'[v] = runner[v]
          /\ UNCHANGED <<rph, disabledOps, overruns>>
          /\ holder' \in Runners \cup {Unreserved} /\ slotFree' \in BOOLEAN
      BY <1>2, RunnerSteps
    <2>2. PICK o \in runner[r].todo : used' = [used EXCEPT ![o] = @ + UnitsOf[runner[r].kind][o]]
      BY <1>2 DEF RecordUsage
    <2>3. runner[r].kind \in Kinds /\ o \in UsageOps
      BY <1>2, <2>2 DEF RecordUsage, OpsFit, ResourcesTypeOK
    <2>4. UnitsOf[runner[r].kind][o] \in Nat
      BY <2>3, ResourcesAssumption
    <2>5. used' \in [UsageOps -> Nat]
      BY <2>2, <2>3, <2>4 DEF ResourcesTypeOK
    <2>6. QED
      BY <2>1, <2>5 DEF ResourcesTypeOK, RunnerType, OpsFit
  <1>3. CASE ProcessDies
    BY <1>3 DEF ProcessDies, NoRunner, ResourcesTypeOK, OpsFit
  <1>4. CASE WatchdogFrees
    BY <1>4, ResourcesAssumption DEF WatchdogFrees, ResourcesTypeOK, OpsFit
  <1>5. CASE HourPasses
    BY <1>5 DEF HourPasses, ResourcesTypeOK, OpsFit
  <1>6. CASE IntervalPasses \/ OpIsDisabled
    BY <1>6 DEF IntervalPasses, OpIsDisabled, ResourcesTypeOK, OpsFit
  <1>7. CASE LimitIsCut
    BY <1>7 DEF LimitIsCut, ResourcesTypeOK, OpsFit
  <1>8. CASE UNCHANGED resourceVars
    BY <1>8 DEF resourceVars, ResourcesTypeOK, OpsFit
  <1>9. QED
    BY <1>1, <1>2, <1>3, <1>4, <1>5, <1>6, <1>7, <1>8 DEF ResourcesNext

\* The error detector only ever lowers a limit.
LEMMA RphCut ==
    ASSUME ResourcesInv, [ResourcesNext]_resourceVars
    PROVE  /\ rph' \in [UsageOps -> Nat]
           /\ \A o \in UsageOps : rph'[o] <= RphOf[o] /\ rph'[o] <= rph[o]
  <1> USE DEF ResourcesInv, ResourcesTypeOK
  <1>1. CASE UNCHANGED rph
    BY <1>1
  <1>2. CASE LimitIsCut
    BY <1>2, ResourcesAssumption DEF LimitIsCut
  <1>3. QED
    BY <1>1, <1>2 DEF ResourcesNext, ReadTaskType, ReserveAccount, CheckOp, TryAcquire, RecordUsage,
       AttemptEnds, ProcessDies, WatchdogFrees, HourPasses, IntervalPasses, OpIsDisabled, resourceVars

\* A limit that is left was left before.
LEMMA LimitedBefore ==
    ASSUME ResourcesInv, [ResourcesNext]_resourceVars, NEW o \in UsageOps, Limited(o)'
    PROVE  Limited(o)
  <1>1. rph'[o] \in Nat /\ rph[o] \in Nat /\ rph'[o] <= rph[o]
    BY RphCut DEF ResourcesInv, ResourcesTypeOK
  <1> DEFINE a == rph'[o]
             b == rph[o]
  <1> HIDE DEF a, b
  <1>2. Effective(a) \in Nat /\ Effective(b) \in Nat /\ Effective(a) <= Effective(b)
    BY <1>1, EffectiveGrows DEF a, b
  <1>3. Limited(o)' = (Effective(a) > 0 \/ \A k \in UsersOf(o) : ThresholdOf[k] > 0)
    BY DEF Limited, a, UsersOf, Effective
  <1>4. Limited(o) = (Effective(b) > 0 \/ \A k \in UsersOf(o) : ThresholdOf[k] > 0)
    BY DEF Limited, b
  <1>5. Effective(a) > 0 => Effective(b) > 0
    BY <1>2
  <1>6. QED
    BY <1>3, <1>4, <1>5, Zenon

\* Who works without the account.
Strays == RunnersAtWork \ {holder}

\* A step after which nobody works that did not.
LEMMA FewerStrays ==
    ASSUME ResourcesInv, Strays' \subseteq Strays, overruns' = overruns
    PROVE  Cardinality(Strays') <= overruns'
  <1>1. IsFiniteSet(Strays)
    BY ResourcesAssumption, FS_Subset DEF Strays, RunnersAtWork
  <1>2. Cardinality(Strays') <= Cardinality(Strays) /\ Cardinality(Strays) \in Nat
        /\ Cardinality(Strays') \in Nat
    BY <1>1, FS_Subset, FS_CardinalityType
  <1>3. QED
    BY <1>2 DEF ResourcesInv, ResourcesTypeOK, Strays

\* Each runner at work that does not hold the account has lost it.
LEMMA StraysStep ==
    ASSUME ResourcesInv, [ResourcesNext]_resourceVars
    PROVE  Cardinality(Strays') <= overruns'
  <1>0. /\ holder \in Runners \cup {Unreserved} /\ overruns \in Nat
        /\ runner \in [Runners -> RunnerType]
    BY ResourcesAssumption DEF ResourcesInv, ResourcesTypeOK, RunnerType
  <1> USE DEF Strays, RunnersAtWork, HasReserved
  <1>1. ASSUME NEW r \in Runners, ReadTaskType(r)
        PROVE  Strays' \subseteq Strays /\ overruns' = overruns
    <2>1. PICK kind \in Kinds :
             runner' = [runner EXCEPT ![r] =
                Turn(IF kind \in TwoAccounts THEN "check" ELSE "reserve", kind, OpsOf[kind] \ disabledOps)]
      BY <1>1 DEF ReadTaskType
    <2>2. (\A v \in Runners \ {r} : runner'[v] = runner[v]) /\ ~HasReserved(r)'
      BY <1>0, <2>1 DEF Turn
    <2>3. QED
      BY <1>1, <2>2 DEF ReadTaskType
  <1>2. ASSUME NEW r \in Runners, ReserveAccount(r)
        PROVE  Strays' \subseteq Strays /\ overruns' = overruns
    <2>1. /\ \A v \in Runners \ {r} : runner'[v] = runner[v]
          /\ overruns' = overruns /\ ~HasReserved(r)
          /\ \/ holder = Unreserved /\ holder' = r
             \/ holder' = holder /\ ~HasReserved(r)'
      <3>1. overruns' = overruns /\ runner[r].pc = "reserve"
        BY <1>2 DEF ReserveAccount
      <3>2. CASE UNCHANGED holder /\ runner' = [runner EXCEPT ![r] = NoRunner]
        BY <1>0, <3>1, <3>2 DEF NoRunner
      <3>3. ASSUME holder = Unreserved, holder' = r, NEW pc, Goes(r, pc)
            PROVE  \A v \in Runners \ {r} : runner'[v] = runner[v]
        BY <1>0, <3>3 DEF Goes
      <3>4. \/ holder = Unreserved /\ holder' = r /\ \E pc \in {"charge", "check"} : Goes(r, pc)
            \/ UNCHANGED holder /\ runner' = [runner EXCEPT ![r] = NoRunner]
        BY <1>2, Zenon DEF ReserveAccount
      <3>5. ~HasReserved(r)
        BY <3>1
      <3>6. (runner' = [runner EXCEPT ![r] = NoRunner]) => ~HasReserved(r)'
        BY <1>0 DEF NoRunner
      <3> HIDE DEF HasReserved
      <3>7. QED
        BY <3>1, <3>2, <3>3, <3>4, <3>5, <3>6
    <2>2. QED
      BY <2>1, ResourcesAssumption
  <1>3. ASSUME NEW r \in Runners, CheckOp(r) \/ TryAcquire(r) \/ AttemptEnds(r)
        PROVE  Strays' \subseteq Strays /\ overruns' = overruns
    <2>1. /\ \A v \in Runners \ {r} : runner'[v] = runner[v]
          /\ overruns' = overruns
          /\ \/ holder' = holder /\ (HasReserved(r)' => HasReserved(r))
             \/ Leave(r)
      <3>1. CASE CheckOp(r)
        <4>1. \/ \E o \in runner[r].todo : holder' = holder /\ runner' = [runner EXCEPT ![r].todo = @ \ {o}]
              \/ Leave(r)
          BY <3>1 DEF CheckOp
        <4>2. overruns' = overruns
          BY <3>1 DEF CheckOp
        <4>3. QED
          BY <1>0, <4>1, <4>2 DEF Leave, RunnerType
      <3>2. CASE TryAcquire(r)
        BY <1>0, <3>2, ResourcesAssumption DEF TryAcquire, Leave, Goes, Turn, RunnerType
      <3>3. CASE AttemptEnds(r)
        BY <1>0, <3>3 DEF AttemptEnds, Leave
      <3>4. QED
        BY <1>3, <3>1, <3>2, <3>3
    <2>2. CASE holder' = holder /\ (HasReserved(r)' => HasReserved(r))
      BY <2>1, <2>2
    <2>3. CASE Leave(r)
      <3>1. ~HasReserved(r)'
        BY <1>0, <2>3 DEF Leave, NoRunner
      <3>2. holder' = holder \/ (holder = r /\ holder' = Unreserved)
        BY <2>3 DEF Leave, LetAccountGo
      <3>3. QED
        BY <2>1, <3>1, <3>2
    <2>4. QED
      BY <2>1, <2>2, <2>3
  <1>4. ASSUME NEW r \in Runners, RecordUsage(r)
        PROVE  Strays' \subseteq Strays /\ overruns' = overruns
    <2>1. UNCHANGED <<overruns, holder>> /\ HasReserved(r)
      BY <1>4 DEF RecordUsage
    <2>2. \A v \in Runners \ {r} : runner'[v] = runner[v]
      BY <1>4, RunnerSteps DEF ResourcesInv
    <2>3. QED
      BY <2>1, <2>2
  <1>5. ASSUME ProcessDies
        PROVE  Strays' \subseteq Strays /\ overruns' = overruns
    BY <1>5 DEF ProcessDies, NoRunner
  <1>6. ASSUME WatchdogFrees
        PROVE  Cardinality(Strays') <= overruns'
    <2>1. UNCHANGED runner /\ holder' = Unreserved /\ holder \in Runners
      BY <1>0, <1>6 DEF WatchdogFrees
    <2>2. CASE ~HasReserved(holder)
      <3>1. Strays' = Strays
        BY <2>1, <2>2, ResourcesAssumption
      <3>2. overruns' = overruns
        BY <1>6, <2>2 DEF WatchdogFrees
      <3>3. QED
        BY <3>1, <3>2, FewerStrays
    <2>3. CASE HasReserved(holder)
      <3>1. Strays' \subseteq Strays \cup {holder} /\ overruns' = overruns + 1
        BY <1>6, <2>1, <2>3 DEF WatchdogFrees
      <3>2. IsFiniteSet(Strays) /\ Cardinality(Strays) <= overruns
        BY ResourcesAssumption, FS_Subset DEF ResourcesInv
      <3>3. /\ IsFiniteSet(Strays \cup {holder})
            /\ Cardinality(Strays \cup {holder}) = Cardinality(Strays) + 1
        BY <3>2, FS_AddElement
      <3>4. Cardinality(Strays') <= Cardinality(Strays \cup {holder}) /\ IsFiniteSet(Strays')
        BY <3>1, <3>3, FS_Subset
      <3> HIDE DEF Strays
      <3>5. Cardinality(Strays) \in Nat /\ Cardinality(Strays') \in Nat
        BY <3>2, <3>4, FS_CardinalityType
      <3>6. QED
        BY <1>0, <3>1, <3>2, <3>3, <3>4, <3>5
    <2>4. QED
      BY <2>2, <2>3
  <1>7. ASSUME \/ UNCHANGED resourceVars \/ HourPasses \/ IntervalPasses \/ LimitIsCut \/ OpIsDisabled
        PROVE  Strays' \subseteq Strays /\ overruns' = overruns
    BY <1>7 DEF HourPasses, IntervalPasses, LimitIsCut, OpIsDisabled, resourceVars
  <1> HIDE DEF Strays
  <1>8. QED
    BY <1>1, <1>2, <1>3, <1>4, <1>5, <1>6, <1>7, FewerStrays DEF ResourcesNext
-----------------------------------------------------------------------------
\* Charges and checks.

\* There are finitely many runners that have passed the check of o.
LEMMA PassedFinite ==
    ASSUME NEW o
    PROVE  /\ IsFiniteSet(PassedRunners(o)) /\ IsFiniteSet(PassedRunners(o)')
           /\ Cardinality(PassedRunners(o)) \in Nat /\ Cardinality(PassedRunners(o)') \in Nat
  <1>1. IsFiniteSet(PassedRunners(o)) /\ IsFiniteSet(PassedRunners(o)')
    BY ResourcesAssumption, FS_Subset DEF PassedRunners
  <1>2. QED
    BY <1>1, FS_CardinalityType

\* The bound has a value, and the rows that may race do not become fewer.
LEMMA BoundTypes ==
    ASSUME ResourcesTypeOK, ResourcesTypeOK', overruns <= overruns', NEW o \in UsageOps
    PROVE  /\ \A k \in UsersOf(o) : Usable(o, k) \in Nat
           /\ MostUnits[o] \in Nat /\ Racers(o) \in Nat /\ Racers(o)' \in Nat /\ Racers(o) <= Racers(o)'
  <1>1. ASSUME NEW k \in UsersOf(o)
        PROVE  Usable(o, k) \in Nat
    <2>1. Effective(RphOf[o]) \in Nat
      BY EffectiveGrows, ResourcesAssumption
    <2> DEFINE c == 20001 - 200 * ThresholdOf[k]
    <2>2. c \in Nat
      <3>1. ThresholdOf[k] \in 0 .. 100
        BY ResourcesAssumption DEF UsersOf
      <3>2. QED
        BY <3>1
    <2> HIDE DEF c
    <2>3. Effective(RphOf[o]) * c \in Nat
      BY <2>1, <2>2
    <2>4. \A x \in Nat : x \div 20000 \in Nat
      OBVIOUS
    <2>5. QED
      BY <2>3, <2>4 DEF Usable, c
  <1>2. overruns \in Nat /\ overruns' \in Nat /\ Cardinality(Runners) \in Nat
    BY ResourcesAssumption, FS_CardinalityType DEF ResourcesTypeOK
  <1>3. Racers(o) \in Nat /\ Racers(o)' \in Nat /\ Racers(o) <= Racers(o)'
    <2>1. CASE UsersOf(o) \cap TwoAccounts # {}
      <3>1. Racers(o) = Cardinality(Runners) /\ Racers(o)' = Cardinality(Runners)
        BY <2>1 DEF Racers, UsersOf
      <3>2. QED
        BY <1>2, <3>1
    <2>2. CASE UsersOf(o) \cap TwoAccounts = {}
      <3>1. Racers(o) = 1 + overruns /\ Racers(o)' = 1 + overruns'
        BY <2>2 DEF Racers, UsersOf
      <3> HIDE DEF Racers
      <3>2. \A i, j \in Nat : i <= j => 1 + i \in Nat /\ 1 + j \in Nat /\ 1 + i <= 1 + j
        OBVIOUS
      <3>3. QED
        BY <1>2, <3>1, <3>2, Zenon
    <2>3. QED
      BY <2>1, <2>2
  <1>4. QED
    BY <1>1, <1>3, ResourcesAssumption

\* The bound does not shrink, so a sum that does not grow stays within.
LEMMA SumKept ==
    ASSUME ResourcesInv, ResourcesTypeOK', NEW o \in UsageOps, overruns <= overruns', ChargesWithin(o),
           used'[o] + MostUnits[o] * Cardinality(PassedRunners(o)')
              <= used[o] + MostUnits[o] * Cardinality(PassedRunners(o))
    PROVE  ChargesWithin(o)'
  <1> DEFINE U == MostUnits[o]
             a == used'[o] + MostUnits[o] * Cardinality(PassedRunners(o)')
             b == used[o] + MostUnits[o] * Cardinality(PassedRunners(o))
             x == Racers(o)
             y == Racers(o)'
  <1>1. PICK k \in UsersOf(o) : b <= Usable(o, k) + U * x
    BY DEF ChargesWithin
  <1>2. U \in Nat /\ x \in Nat /\ y \in Nat /\ x <= y /\ Usable(o, k) \in Nat
    BY BoundTypes DEF ResourcesInv
  <1>3. a \in Nat /\ b \in Nat
    <2>1. used[o] \in Nat /\ used'[o] \in Nat
      BY DEF ResourcesInv, ResourcesTypeOK
    <2>2. QED
      BY <1>2, <2>1, PassedFinite
  <1>4. a <= b
    OBVIOUS
  <1> HIDE DEF a, b, x, y, U
  <1>5. x * U <= y * U /\ x * U = U * x /\ y * U = U * y /\ U * x \in Nat /\ U * y \in Nat
    BY <1>2, Monotone
  <1>6. a <= Usable(o, k) + U * y
    BY <1>1, <1>2, <1>3, <1>4, <1>5
  <1>7. k \in UsersOf(o)' /\ Usable(o, k)' = Usable(o, k)
    BY DEF UsersOf, Usable, Effective
  <1>8. QED
    BY <1>6, <1>7 DEF a, U, y, ChargesWithin

\* A check that succeeds finds the usage within the usable part, whoever else
\* has passed it.
LEMMA CheckedCharges ==
    ASSUME ResourcesInv, NEW o \in UsageOps, NEW k \in UsersOf(o), Available(o, k), Limited(o),
           ResourcesTypeOK', \A r \in Runners : OpsFit(r)',
           UNCHANGED <<used, overruns, holder>>, RunnersAtWork' = RunnersAtWork
    PROVE  ChargesWithin(o)'
  <1> DEFINE U == MostUnits[o]
             c == used[o]
             n == Cardinality(PassedRunners(o)')
             x == Racers(o)'
  <1>0. overruns \in Nat /\ overruns' \in Nat /\ overruns <= overruns'
    BY ResourcesAssumption DEF ResourcesInv, ResourcesTypeOK
  <1>1. U \in Nat /\ c \in Nat /\ n \in Nat /\ x \in Nat /\ Usable(o, k) \in Nat
    BY <1>0, PassedFinite, BoundTypes, ResourcesAssumption DEF ResourcesInv, ResourcesTypeOK
  <1>2. n <= x
    <2>1. CASE UsersOf(o) \cap TwoAccounts # {}
      <3>1. x = Cardinality(Runners)
        BY <2>1 DEF Racers, UsersOf
      <3>2. PassedRunners(o)' \subseteq Runners
        BY DEF PassedRunners
      <3>3. QED
        BY <3>1, <3>2, FS_Subset, ResourcesAssumption
    <2>2. CASE UsersOf(o) \cap TwoAccounts = {}
      <3>1. x = 1 + overruns
        BY <2>2 DEF Racers, UsersOf
      <3>2. PassedRunners(o)' \subseteq RunnersAtWork'
        BY <2>2 DEF PassedRunners, Passed, RunnersAtWork, HasReserved, OpsFit, UsersOf
      <3>3. IsFiniteSet(RunnersAtWork) /\ IsFiniteSet(RunnersAtWork \ {holder})
        BY ResourcesAssumption, FS_Subset DEF RunnersAtWork
      <3>4. Cardinality((RunnersAtWork \ {holder}) \cup {holder}) = Cardinality(RunnersAtWork \ {holder}) + 1
            /\ IsFiniteSet((RunnersAtWork \ {holder}) \cup {holder})
        BY <3>3, FS_AddElement
      <3>5. PassedRunners(o)' \subseteq (RunnersAtWork \ {holder}) \cup {holder}
        BY <3>2
      <3>6. n <= Cardinality((RunnersAtWork \ {holder}) \cup {holder})
        BY <3>4, <3>5, FS_Subset
      <3>7. Cardinality(RunnersAtWork \ {holder}) \in Nat
        BY <3>3, FS_CardinalityType
      <3>8. Cardinality(RunnersAtWork \ {holder}) <= overruns
        BY DEF ResourcesInv
      <3> HIDE DEF n, x
      <3>9. QED
        BY <1>0, <1>1, <3>1, <3>4, <3>6, <3>7, <3>8
    <2>3. QED
      BY <2>1, <2>2
  <1>3. c <= Usable(o, k)
    <2>1. rph[o] \in Nat /\ RphOf[o] \in Nat /\ rph[o] <= RphOf[o]
      BY ResourcesAssumption DEF ResourcesInv, ResourcesTypeOK
    <2>2. /\ Effective(rph[o]) \in Nat /\ Effective(RphOf[o]) \in Nat
          /\ Effective(rph[o]) <= Effective(RphOf[o])
      BY <2>1, EffectiveGrows
    <2>3. Hundredths(Effective(rph[o]), c) >= 100 * ThresholdOf[k]
      BY DEF Available
    <2>4. ThresholdOf[k] \in 0 .. 100
      BY ResourcesAssumption DEF UsersOf
    <2>5. Effective(rph[o]) > 0 \/ ThresholdOf[k] > 0
      BY DEF Limited
    <2> DEFINE e == Effective(rph[o])
               f == Effective(RphOf[o])
               t == ThresholdOf[k]
    <2>6. c \in Nat
      BY <1>1
    <2> HIDE DEF e, f, t, c
    <2>7. /\ e \in Nat /\ f \in Nat /\ e <= f /\ t \in 0 .. 100 /\ (e > 0 \/ t > 0)
          /\ Hundredths(e, c) >= 100 * t
      BY <2>2, <2>3, <2>4, <2>5 DEF e, f, t
    <2>8. c <= UsablePart(f, t)
      BY <2>6, <2>7, AvailableWithin
    <2>9. QED
      BY <2>8 DEF Usable, f, t, UsablePart
  <1> HIDE DEF U, c, n, x
  <1>4. n * U <= x * U /\ x * U = U * x /\ n * U = U * n /\ U * n \in Nat /\ U * x \in Nat
    BY <1>1, <1>2, Monotone
  <1>5. c + U * n <= Usable(o, k) + U * x
    BY <1>1, <1>3, <1>4
  <1>6. k \in UsersOf(o)' /\ Usable(o, k)' = Usable(o, k) /\ used'[o] = c
    BY DEF UsersOf, Usable, Effective, c
  <1>7. QED
    BY <1>5, <1>6 DEF U, n, x, ChargesWithin

\* A step in which no runner passes a check, and no usage is added.
LEMMA PassedFewer ==
    ASSUME ResourcesInv, ResourcesTypeOK', NEW o \in UsageOps, ChargesWithin(o),
           PassedRunners(o)' \subseteq PassedRunners(o), used'[o] <= used[o], overruns <= overruns'
    PROVE  ChargesWithin(o)'
  <1> DEFINE m == Cardinality(PassedRunners(o)')
             n == Cardinality(PassedRunners(o))
             U == MostUnits[o]
  <1>1. m \in Nat /\ n \in Nat /\ m <= n
    BY PassedFinite, FS_Subset
  <1>2. U \in Nat /\ used[o] \in Nat /\ used'[o] \in Nat
    BY ResourcesAssumption DEF ResourcesInv, ResourcesTypeOK
  <1> HIDE DEF m, n, U
  <1>3. m * U <= n * U /\ m * U = U * m /\ n * U = U * n /\ U * m \in Nat /\ U * n \in Nat
    BY <1>1, <1>2, Monotone
  <1>4. used'[o] + U * m <= used[o] + U * n
    BY <1>2, <1>3
  <1>5. QED
    BY <1>4, SumKept DEF m, n, U

\* What a runner charges it had passed the check for.
LEMMA PassedCharges ==
    ASSUME ResourcesInv, ResourcesTypeOK', NEW o \in UsageOps, ChargesWithin(o), NEW r \in PassedRunners(o),
           PassedRunners(o)' \subseteq PassedRunners(o) \ {r}, overruns <= overruns',
           NEW u \in Nat, u <= MostUnits[o], used'[o] = used[o] + u
    PROVE  ChargesWithin(o)'
  <1> DEFINE m == Cardinality(PassedRunners(o)')
             n == Cardinality(PassedRunners(o))
             U == MostUnits[o]
  <1>1. m \in Nat /\ n \in Nat /\ m <= n - 1
    <2>1. Cardinality(PassedRunners(o) \ {r}) = n - 1 /\ IsFiniteSet(PassedRunners(o) \ {r})
      BY PassedFinite, FS_RemoveElement
    <2>2. m <= Cardinality(PassedRunners(o) \ {r})
      BY <2>1, FS_Subset
    <2> HIDE DEF m, n
    <2>3. m \in Nat /\ n \in Nat
      BY PassedFinite DEF m, n
    <2>4. QED
      BY <2>1, <2>2, <2>3
  <1>2. U \in Nat /\ used[o] \in Nat /\ used'[o] \in Nat /\ u <= U
    BY ResourcesAssumption DEF ResourcesInv, ResourcesTypeOK
  <1> HIDE DEF m, n, U
  <1>3. (m + 1) * U <= n * U /\ (m + 1) * U = U * m + U /\ n * U = U * n /\ U * m \in Nat /\ U * n \in Nat
    BY <1>1, <1>2, Monotone
  <1>4. used'[o] + U * m <= used[o] + U * n
    BY <1>2, <1>3
  <1>5. QED
    BY <1>4, SumKept DEF m, n, U

\* The charges made and to come stay within the limit.
LEMMA ChargesStep ==
    ASSUME ResourcesInv, [ResourcesNext]_resourceVars, NEW o \in UsageOps, Limited(o)'
    PROVE  ChargesWithin(o)'
  <1>0. /\ holder \in Runners \cup {Unreserved} /\ overruns \in Nat /\ used \in [UsageOps -> Nat]
        /\ runner \in [Runners -> RunnerType] /\ \A r \in Runners : OpsFit(r)
    BY ResourcesAssumption DEF ResourcesInv, ResourcesTypeOK, RunnerType
  <1>t. ResourcesTypeOK' /\ \A r \in Runners : OpsFit(r)'
    BY ResourcesTyped
  <1>l. Limited(o) /\ ChargesWithin(o)
    BY LimitedBefore DEF ResourcesInv
  <1>b. ASSUME PassedRunners(o)' \subseteq PassedRunners(o), used'[o] <= used[o], overruns <= overruns'
        PROVE  ChargesWithin(o)'
    BY <1>b, <1>t, <1>l, PassedFewer
  <1>s. ASSUME NEW r \in Runners, Passed(r, o)' => Passed(r, o), UNCHANGED <<used, overruns>>,
               \A v \in Runners \ {r} : runner'[v] = runner[v]
        PROVE  ChargesWithin(o)'
    <2>1. PassedRunners(o)' \subseteq PassedRunners(o)
      BY <1>s DEF PassedRunners, Passed
    <2>2. QED
      BY <1>0, <1>b, <1>s, <2>1
  <1>1. ASSUME NEW r \in Runners, ReadTaskType(r)
        PROVE  ChargesWithin(o)'
    <2>1. /\ \A v \in Runners \ {r} : runner'[v] = runner[v]
          /\ UNCHANGED <<used, overruns>>
      BY <1>0, <1>1, RunnerSteps, UsageKept DEF ResourcesInv
    <2>2. PICK kind \in Kinds :
             runner' = [runner EXCEPT ![r] =
                Turn(IF kind \in TwoAccounts THEN "check" ELSE "reserve", kind, OpsOf[kind] \ disabledOps)]
      BY <1>1 DEF ReadTaskType
    <2>3. ~Passed(r, o)'
      BY <1>0, <2>2 DEF Turn, Passed
    <2>4. QED
      BY <1>s, <2>1, <2>3
  <1>2. ASSUME NEW r \in Runners, ReserveAccount(r) \/ TryAcquire(r) \/ AttemptEnds(r)
        PROVE  ChargesWithin(o)'
    <2>1. /\ \A v \in Runners \ {r} : runner'[v] = runner[v]
          /\ UNCHANGED <<used, overruns>>
      BY <1>0, <1>2, RunnerSteps, UsageKept DEF ResourcesInv
    <2>2. Passed(r, o)' => Passed(r, o)
      <3>1. CASE ReserveAccount(r)
        BY <1>0, <3>1 DEF ReserveAccount, Goes, Turn, NoRunner, Passed, RunnerType
      <3>2. CASE TryAcquire(r)
        BY <1>0, <3>2 DEF TryAcquire, Goes, Turn, Leave, NoRunner, Passed, RunnerType
      <3>3. CASE AttemptEnds(r)
        BY <1>0, <3>3 DEF AttemptEnds, Leave, NoRunner, Passed
      <3>4. QED
        BY <1>2, <3>1, <3>2, <3>3
    <2>3. QED
      BY <1>s, <2>1, <2>2
  <1>3. ASSUME NEW r \in Runners, CheckOp(r)
        PROVE  ChargesWithin(o)'
    <2>1. /\ \A v \in Runners \ {r} : runner'[v] = runner[v]
          /\ UNCHANGED <<used, overruns>> /\ runner[r].pc = "check"
      BY <1>0, <1>3, RunnerSteps, UsageKept DEF ResourcesInv, CheckOp
    <2>2. CASE Leave(r)
      <3>1. ~Passed(r, o)'
        BY <1>0, <2>2 DEF Leave, NoRunner, Passed
      <3>2. QED
        BY <1>s, <2>1, <3>1
    <2>3. ASSUME NEW o1 \in runner[r].todo, Available(o1, runner[r].kind), UNCHANGED holder,
                 runner' = [runner EXCEPT ![r].todo = @ \ {o1}]
          PROVE  ChargesWithin(o)'
      <3>1. /\ runner'[r].pc = "check" /\ runner'[r].ops = runner[r].ops
            /\ runner'[r].kind = runner[r].kind /\ runner'[r].todo = runner[r].todo \ {o1}
        BY <1>0, <2>1, <2>3 DEF RunnerType
      <3>2. CASE o1 = o
        <4>1. RunnersAtWork' = RunnersAtWork
          BY <2>1, <3>1 DEF RunnersAtWork, HasReserved
        <4>2. runner[r].kind \in UsersOf(o)
          BY <1>0, <2>1, <2>3, <3>2 DEF OpsFit, UsersOf
        <4>3. PICK k \in UsersOf(o) : k = runner[r].kind
          BY <4>2
        <4>4. Available(o, k)
          BY <2>3, <3>2, <4>3
        <4>5. UNCHANGED <<used, overruns, holder>>
          BY <2>1, <2>3
        <4>6. QED
          BY <1>l, <1>t, <4>1, <4>4, <4>5, CheckedCharges
      <3>3. CASE o1 # o
        <4>1. Passed(r, o)' => Passed(r, o)
          BY <2>1, <3>1, <3>3 DEF Passed
        <4>2. QED
          BY <1>s, <2>1, <4>1
      <3>4. QED
        BY <3>2, <3>3
    <2>4. QED
      BY <1>3, <2>2, <2>3 DEF CheckOp
  <1>4. ASSUME NEW r \in Runners, RecordUsage(r)
        PROVE  ChargesWithin(o)'
    <2>1. /\ \A v \in Runners \ {r} : runner'[v] = runner[v]
          /\ UNCHANGED overruns /\ runner[r].pc = "charge"
      BY <1>0, <1>4, RunnerSteps DEF ResourcesInv, RecordUsage
    <2>2. PICK o1 \in runner[r].todo :
             /\ used' = [used EXCEPT ![o1] = @ + UnitsOf[runner[r].kind][o1]]
             /\ IF runner[r].todo = {o1} THEN Goes(r, "execute")
                                         ELSE runner' = [runner EXCEPT ![r].todo = @ \ {o1}]
      BY <1>4 DEF RecordUsage
    <2>3. /\ o1 \in UsageOps /\ runner[r].kind \in Kinds
          /\ UnitsOf[runner[r].kind][o1] \in Nat /\ UnitsOf[runner[r].kind][o1] <= MostUnits[o1]
      BY <1>0, <2>1, <2>2, ResourcesAssumption DEF OpsFit, RunnerType
    <2>4. \/ runner'[r].pc = "execute"
          \/ runner'[r].pc = "charge" /\ runner'[r].todo = runner[r].todo \ {o1}
      BY <1>0, <2>1, <2>2 DEF Goes, Turn, RunnerType
    <2>5. CASE o1 = o
      <3>1. used'[o] = used[o] + UnitsOf[runner[r].kind][o]
        BY <1>0, <2>2, <2>5
      <3>2. PassedRunners(o)' \subseteq PassedRunners(o) \ {r} /\ r \in PassedRunners(o)
        BY <2>1, <2>2, <2>4, <2>5 DEF PassedRunners, Passed
      <3>3. PICK u \in Nat : u = UnitsOf[runner[r].kind][o] /\ u <= MostUnits[o]
        BY <2>3, <2>5
      <3>4. overruns <= overruns' /\ used'[o] = used[o] + u
        BY <1>0, <2>1, <3>1, <3>3
      <3>5. QED
        BY <1>l, <1>t, <3>2, <3>3, <3>4, PassedCharges
    <2>6. CASE o1 # o
      <3>1. used'[o] = used[o] /\ overruns <= overruns'
        BY <1>0, <2>1, <2>2, <2>6
      <3>2. PassedRunners(o)' \subseteq PassedRunners(o)
        BY <2>1, <2>4, <2>6 DEF PassedRunners, Passed
      <3>3. QED
        BY <1>0, <1>b, <3>1, <3>2
    <2>7. QED
      BY <2>5, <2>6
  <1>5. ASSUME ProcessDies
        PROVE  ChargesWithin(o)'
    <2>1. (\A v \in Runners : runner'[v].pc = "idle") /\ UNCHANGED <<used, overruns>>
      BY <1>5 DEF ProcessDies, NoRunner
    <2>2. PassedRunners(o)' \subseteq PassedRunners(o)
      BY <2>1 DEF PassedRunners, Passed
    <2>3. QED
      BY <1>0, <1>b, <2>1, <2>2
  <1>6. ASSUME \/ UNCHANGED resourceVars \/ WatchdogFrees \/ HourPasses \/ IntervalPasses
               \/ LimitIsCut \/ OpIsDisabled
        PROVE  ChargesWithin(o)'
    <2>1. UNCHANGED runner /\ overruns <= overruns'
      BY <1>0, <1>6 DEF WatchdogFrees, HourPasses, IntervalPasses, LimitIsCut, OpIsDisabled, resourceVars
    <2>2. used'[o] <= used[o]
      <3>1. CASE HourPasses
        BY <1>0, <3>1 DEF HourPasses
      <3>2. CASE used' = used
        BY <1>0, <3>2
      <3>3. QED
        BY <1>6, <3>1, <3>2 DEF WatchdogFrees, IntervalPasses, LimitIsCut, OpIsDisabled, resourceVars
    <2>3. PassedRunners(o)' = PassedRunners(o)
      BY <2>1 DEF PassedRunners, Passed
    <2>4. QED
      BY <1>b, <2>1, <2>2, <2>3
  <1>7. QED
    BY <1>1, <1>2, <1>3, <1>4, <1>5, <1>6 DEF ResourcesNext

\* The inductive invariant of the limits: as many attempts run without the account
\* as lost it, and the charges to come are within the limit too.
THEOREM ResourcesInvariant == ResourcesSpec => []ResourcesInv
  <1>1. ASSUME ResourcesInit
        PROVE  ResourcesInv
    <2>1. ResourcesTypeOK
      BY <1>1, ResourcesAssumption DEF ResourcesInit, ResourcesTypeOK, NoRunner
    <2>2. \A r \in Runners : runner[r].pc = "idle"
      BY <1>1 DEF ResourcesInit, NoRunner
    <2>3. RunnersAtWork \ {holder} = {} /\ overruns = 0
      BY <1>1, <2>2 DEF RunnersAtWork, HasReserved, ResourcesInit
    <2>4. \A o \in UsageOps : rph[o] <= RphOf[o]
      BY <1>1, ResourcesAssumption DEF ResourcesInit
    <2>5. ASSUME NEW o \in UsageOps
          PROVE  ChargesWithin(o)
      <3>1. PassedRunners(o) = {} /\ used[o] = 0
        BY <1>1, <2>2 DEF PassedRunners, Passed, ResourcesInit
      <3>2. Cardinality(PassedRunners(o)) = 0
        BY <3>1, FS_EmptySet
      <3>3. PICK k \in UsersOf(o) : TRUE
        BY ResourcesAssumption DEF UsersOf
      <3>4. ThresholdOf[k] \in 0 .. 100 /\ MostUnits[o] \in Nat
        BY ResourcesAssumption DEF UsersOf
      <3>5. Usable(o, k) \in Nat
        <4>1. Effective(RphOf[o]) \in Nat
          BY EffectiveGrows, ResourcesAssumption
        <4> DEFINE c == 20001 - 200 * ThresholdOf[k]
        <4>2. c \in Nat
          BY <3>4
        <4> HIDE DEF c
        <4>3. Effective(RphOf[o]) * c \in Nat
          BY <4>1, <4>2
        <4>4. \A x \in Nat : x \div 20000 \in Nat
          OBVIOUS
        <4>5. QED
          BY <4>3, <4>4 DEF Usable, c
      <3>6. Racers(o) \in Nat
        BY <2>3, ResourcesAssumption, FS_CardinalityType DEF Racers
      <3>7. MostUnits[o] * Racers(o) \in Nat
        BY <3>4, <3>6
      <3>8. QED
        BY <3>1, <3>2, <3>3, <3>4, <3>5, <3>7 DEF ChargesWithin
    <2>6. Cardinality(RunnersAtWork \ {holder}) <= overruns
      BY <2>3, FS_EmptySet
    <2>7. QED
      BY <2>1, <2>2, <2>4, <2>5, <2>6 DEF ResourcesInv, OpsFit
  <1>2. ResourcesInv /\ [ResourcesNext]_resourceVars => ResourcesInv'
    <2>1. SUFFICES ASSUME ResourcesInv, [ResourcesNext]_resourceVars PROVE ResourcesInv'
      OBVIOUS
    <2>2. ResourcesTypeOK' /\ \A r \in Runners : OpsFit(r)'
      BY <2>1, ResourcesTyped
    <2>3. Cardinality((RunnersAtWork \ {holder})') <= overruns'
      BY <2>1, StraysStep DEF Strays
    <2>4. QED
      BY <2>1, <2>2, <2>3, RphCut, ChargesStep DEF ResourcesInv
  <1>3. QED
    BY <1>1, <1>2, PTL DEF ResourcesSpec

\* HourlyLimit: checks, charges, lost reservations and restarts may interleave as
\* they like, an op is charged past what the check allows by one task, and by one
\* for each attempt that lost its account (check_account, record_for_task); by as
\* many as there are workers when moves use the op, which check their accounts
\* before they reserve them (_reserve_dual_accounts).
THEOREM LimitHolds == ResourcesSpec => []HourlyLimit
  <1>1. ASSUME ResourcesInv
        PROVE  HourlyLimit
    <2>1. ASSUME NEW o \in UsageOps, Limited(o)
          PROVE  \E k \in UsersOf(o) : used[o] <= Usable(o, k) + MostUnits[o] * Racers(o)
      <3> DEFINE n == Cardinality(PassedRunners(o))
                 U == MostUnits[o]
      <3>1. PICK k \in UsersOf(o) : used[o] + U * n <= Usable(o, k) + U * Racers(o)
        BY <1>1, <2>1 DEF ResourcesInv, ChargesWithin
      <3>2. n \in Nat /\ U \in Nat /\ used[o] \in Nat
        BY <1>1, PassedFinite, ResourcesAssumption DEF ResourcesInv, ResourcesTypeOK
      <3>3. Usable(o, k) \in Nat /\ Racers(o) \in Nat
        <4>1. overruns \in Nat /\ Cardinality(Runners) \in Nat
          BY <1>1, ResourcesAssumption, FS_CardinalityType DEF ResourcesInv, ResourcesTypeOK
        <4>2. Racers(o) \in Nat
          BY <4>1 DEF Racers
        <4>3. Effective(RphOf[o]) \in Nat /\ ThresholdOf[k] \in 0 .. 100
          BY EffectiveGrows, ResourcesAssumption DEF UsersOf
        <4>4. 20001 - 200 * ThresholdOf[k] \in Nat
          BY <4>3
        <4>5. \A x, y \in Nat : (x * y) \div 20000 \in Nat
          OBVIOUS
        <4>6. QED
          BY <4>2, <4>3, <4>4, <4>5 DEF Usable
      <3> HIDE DEF n, U
      <3>4. U * n \in Nat /\ U * Racers(o) \in Nat
        BY <3>2, <3>3
      <3>5. used[o] <= Usable(o, k) + U * Racers(o)
        BY <3>1, <3>2, <3>3, <3>4
      <3>6. QED
        BY <3>5 DEF U
    <2>2. QED
      BY <2>1 DEF HourlyLimit
  <1>2. QED
    BY <1>1, ResourcesInvariant, PTL

-----------------------------------------------------------------------------
\* All services together.

\* The services share no variable: a step of all is a step of each, or a stutter.
LEMMA EachSteps ==
    ASSUME [ServicesNext]_<<focus, producersVars, vars, fleetVars, balancerVars, healthVars, resourceVars>>
    PROVE  /\ [ProducersNext]_producersVars /\ [Next]_vars /\ [FleetNext]_fleetVars
           /\ [BalancerNext]_balancerVars /\ [HealthNext]_healthVars /\ [ResourcesNext]_resourceVars
  BY DEF ServicesNext, OthersStay, Stays

\* Every behaviour of the services together is one of each of them.
THEOREM ServicesAreEach ==
    ServicesSpec => ProducersSpec /\ Spec /\ FleetSpec /\ BalancerSpec /\ HealthSpec /\ ResourcesSpec
  <1>1. ServicesInit => /\ ProducersInit /\ Init /\ FleetInit /\ BalancerInit /\ HealthInit
                        /\ ResourcesInit
    BY DEF ServicesInit
  <1>2. [ServicesNext]_<<focus, producersVars, vars, fleetVars, balancerVars, healthVars, resourceVars>>
        => /\ [ProducersNext]_producersVars /\ [Next]_vars /\ [FleetNext]_fleetVars
           /\ [BalancerNext]_balancerVars /\ [HealthNext]_healthVars /\ [ResourcesNext]_resourceVars
    BY EachSteps
  <1>3. QED
    BY <1>1, <1>2, PTL
       DEF ServicesSpec, ProducersSpec, Spec, FleetSpec, BalancerSpec, HealthSpec, ResourcesSpec

\* Every variable of the six services is of its type, whichever of them moves.
THEOREM ServicesTypeCorrect == ServicesSpec => []ServicesTypeOK
  <1>1. ResourcesInv => ResourcesTypeOK
    BY DEF ResourcesInv
  <1>2. ProducersInv => ProducersTypeOK
    BY DEF ProducersInv
  <1>3. PipeInv => TypeOK
    BY DEF PipeInv
  <1>4. FleetInv => FleetTypeOK
    BY DEF FleetInv
  <1>5. HealthInv => HealthTypeOK
    BY DEF HealthInv
  <1>6. /\ ProducersTypeOK /\ TypeOK /\ FleetTypeOK /\ BalancerTypeOK /\ HealthTypeOK /\ ResourcesTypeOK
        => ServicesTypeOK
    BY DEF ServicesTypeOK
  <1>7. QED
    BY <1>1, <1>2, <1>3, <1>4, <1>5, <1>6, ServicesAreEach, ProducersInvariant, PipelineInvariant,
       FleetInvariant, BalancerTypeCorrect, HealthInvariant, ResourcesInvariant, PTL
=============================================================================
