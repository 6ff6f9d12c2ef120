----------------------------- MODULE MCMeBinding -----------------------------
(***************************************************************************)
(* Instances for TLC of the connections of the Middle-End pool: the tables *)
(* that bind client connections to writers (MePool), the handshake of a    *)
(* writer (MeHandshake) and the scheduler behind its reader (MeFairness).  *)
(* Of MePool the behaviours with client sessions and without refill task or*)
(* rotation are looked at: every writer id is used once and the session of *)
(* c2 is bound before that of c1 opens and stays open, as the bystander of *)
(* what happens to c1.                                                     *)
(***************************************************************************)
EXTENDS MePool, TLC

CONSTANTS c1, c2, e1

CONSTANT Views   \* the views a run looks at

VARIABLE view   \* what a behaviour is about
VARIABLES secret, print, hs, srv   \* MeHandshake
VARIABLES flows, ring, total, bucketBytes, standing, backed, press, fairshare, reader, streak,
          route, chan, sent, seen, bypassed, switches   \* MeFairness

OneEndpoint == [w \in Writers |-> e1]
WriterSymmetry == Permutations(Writers)

BindNext ==
  \/ SessionNext /\ session'[c2] \in {"new", "open"} /\ (c2 \in routed => c2 \in routed')
     /\ job'[c2].pc # "dead" /\ (session[c1] = "new" /\ session'[c1] # "new" => writerFor[c2] # None)
  \/ WriterNext
  \/ \E w \in Writers :
       \/ PruneClosed(w) \/ Reap(w) \/ (life[w] = "free" /\ HealthConnects(w))
       \/ \E allow \in BOOLEAN : ReinitDrains(w, allow)
  \/ FloorMissing

handshakeVars == <<secret, print, hs, srv>>
fairVars == <<flows, ring, total, bucketBytes, standing, backed, press, fairshare, reader,
              streak, route, chan, sent, seen, bypassed, switches>>
allVars == <<view, vars, handshakeVars, fairVars>>

Handshake == INSTANCE MeHandshake WITH
  Tasks <- {1}, Atomic <- FALSE, Strict <- FALSE,
  Routes <- {"direct", "none", "zero", "bogon", "bound"}, Reflected <- {"none", "public"},
  Locals <- {"public", "bogon"}, Block <- 4, Replies <- {<<8>>, <<1, 8>>, <<1, 1, 6>>},
  MaxSecrets <- 2

Strict == INSTANCE MeHandshake WITH
  Tasks <- {1}, Atomic <- TRUE, Strict <- TRUE,
  Routes <- {"direct", "none", "zero", "bogon", "bound"}, Reflected <- {"none", "public"},
  Locals <- {"public", "bogon"}, Block <- 4, Replies <- {<<8>>, <<1, 8>>, <<1, 1, 6>>},
  MaxSecrets <- 2

Fair == INSTANCE MeFairness WITH
  Conns <- {1, 2}, Backpressure <- TRUE, MaxFrames <- 2, Sizes <- {2}, MaxSwitches <- 1,
  Bucket <- <<0, 0>>, MaxTotal <- 4, MaxFlow <- 3, BucketCap <- 4, MaxFlows <- 2,
  Quantum <- [l \in 0..3 |-> IF l = 0 THEN 2 ELSE 1], Backlog <- 2, ShedStalls <- 1,
  CloseStalls <- 2, Streak <- 2, RatioAt <- <<65, 82, 94>>, RejectsAt <- <<1, 2, 2>>,
  StallsAt <- <<1, 1, 2>>, Hysteresis <- 1, EvalRounds <- 2, Budget <- 3, ChanFrames <- 1,
  ChanBytes <- 2

NoPressure == INSTANCE MeFairness WITH
  Conns <- {1}, Backpressure <- FALSE, MaxFrames <- 3, Sizes <- {1}, MaxSwitches <- 0,
  Bucket <- <<0>>, MaxTotal <- 6, MaxFlow <- 3, BucketCap <- 6, MaxFlows <- 2,
  Quantum <- [l \in 0..3 |-> IF l = 0 THEN 2 ELSE 1], Backlog <- 2, ShedStalls <- 2,
  CloseStalls <- 3, Streak <- 4, RatioAt <- <<65, 82, 94>>, RejectsAt <- <<1, 2, 2>>,
  StallsAt <- <<2, 3, 4>>, Hysteresis <- 1, EvalRounds <- 2, Budget <- 2, ChanFrames <- 1,
  ChanBytes <- 2

\* The variables of the other views keep one value.
HandshakeInit ==
  \/ view = "handshake" /\ Handshake!Init
  \/ view = "strict" /\ Strict!Init
  \/ /\ view \notin {"handshake", "strict"}
     /\ secret = 0 /\ print = 0 /\ hs = 0 /\ srv = 0

FairInit ==
  \/ view = "fairness" /\ Fair!Init
  \/ view = "no_pressure" /\ NoPressure!Init
  \/ /\ view \notin {"fairness", "no_pressure"}
     /\ flows = 0 /\ ring = 0 /\ total = 0 /\ bucketBytes = 0 /\ standing = 0 /\ backed = 0
     /\ press = 0 /\ fairshare = 0 /\ reader = 0 /\ streak = 0 /\ route = 0 /\ chan = 0
     /\ sent = 0 /\ seen = 0 /\ bypassed = 0 /\ switches = 0

MCInit ==
  /\ view \in Views
  /\ Init
  /\ HandshakeInit
  /\ FairInit

MCNext ==
  /\ UNCHANGED view
  /\ \/ view = "bind" /\ BindNext /\ UNCHANGED <<handshakeVars, fairVars>>
     \/ view = "handshake" /\ Handshake!Next /\ UNCHANGED <<vars, fairVars>>
     \/ view = "strict" /\ Strict!Next /\ UNCHANGED <<vars, fairVars>>
     \/ view = "fairness" /\ Fair!Next /\ UNCHANGED <<vars, handshakeVars>>
     \/ view = "no_pressure" /\ NoPressure!Next /\ UNCHANGED <<vars, handshakeVars>>

MCSpec == MCInit /\ [][MCNext]_allVars

\* Whatever the reads of a reply are cut into, the ciphers of both directions
\* stand where the first frame behind the handshake begins (handshake.rs).
CipherInStep ==
  /\ view = "handshake" => Handshake!CipherInStep
  /\ view = "strict" => Strict!CipherInStep
\* The frames of a connection enter its channel in order, and the counters the
\* scheduler admits and sheds by say what its queues hold (fairness/scheduler.rs).
QueuedFramesInOrder ==
  /\ [](/\ view = "fairness" => Fair!SchedulerBooksExact
        /\ view = "no_pressure" => NoPressure!SchedulerBooksExact)
  /\ [][/\ view = "fairness" => Fair!InOrder
        /\ view = "no_pressure" => NoPressure!InOrder]_fairVars
==============================================================================
