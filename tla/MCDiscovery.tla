----------------------------- MODULE MCDiscovery -----------------------------
(***************************************************************************)
(* The services of the discovery API beside the clumps, and the detector of *)
(* the queue monitor, in one instance, one of them in focus as in           *)
(* MCServices.  Detector: the op is act1, v1 and v2 are the error codes.      *)
(***************************************************************************)
EXTENDS Parsers, Ingress, SessionFiles, ClientSessions, Detector, TLC

CONSTANTS x1, x2, y1, y2, y3, z1, z2, v1, v2, v3, qrLogin, dm1, dm2, act1

VARIABLE focus

DiscoveryInit ==
    /\ ParsersInit /\ IngressInit /\ FilesInit /\ ClientsInit
    /\ DetectorInit
    /\ focus \in {"parsers", "ingress", "files", "clients", "detector"}
    /\ focus # "ingress" => ~redisMode

\* Only the service in focus moves.
Stays(service, v) == IF focus = service THEN TRUE ELSE UNCHANGED v
OthersStay ==
    /\ Stays("parsers", parserVars)
    /\ Stays("ingress", ingressVars)
    /\ Stays("files", filesVars)
    /\ Stays("clients", clientVars)
    /\ Stays("detector", detectorVars)
    /\ UNCHANGED focus

DiscoveryNext ==
    /\ \/ focus = "parsers" /\ ParsersNext
       \/ focus = "ingress" /\ IngressNext
       \/ focus = "files" /\ FilesNext
       \/ focus = "clients" /\ ClientsNext
       \/ focus = "detector" /\ DetectorNext
    /\ OthersStay

DiscoverySpec ==
    DiscoveryInit /\ [][DiscoveryNext]_<<focus, parserVars, ingressVars, filesVars, clientVars,
                                         detectorVars>>

\* Every variable of every service is of its type; the inbox holds no more than
\* its bound.
DiscoveryTypeOK == /\ ParsersTypeOK /\ IngressTypeOK /\ FilesTypeOK /\ ClientsTypeOK
                   /\ DetectorTypeOK

\* Bounds: of the six calls on a client session two are under way at a time, and
\* the last send, history or watch alone; the errors of the op come in two waves.
One(busy) == IF busy THEN 1 ELSE 0
CallsUnderWay ==
    Cardinality({s \in Senders : sender[s].at \notin {"new", "done"}})
      + One(poll.at # "idle") + One(revoking.at # "idle") + One(dialogue.at # "idle")
DiscoveryBound ==
    /\ CallsUnderWay <= One(\E s \in Senders : sender[s].at = "new") + 1
    /\ MapThenSumSet(LAMBDA c : waves[c], FloodPairs) <= 2

DiscoverySymmetry ==
    Permutations({y1, y2, y3}) \cup Permutations({z1, z2}) \cup Permutations({dm1, dm2})
=============================================================================
