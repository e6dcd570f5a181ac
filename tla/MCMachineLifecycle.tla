------------------------- MODULE MCMachineLifecycle -------------------------
(***************************************************************************)
(* Instances of MachineLifecycle for TLC: one Companion alone, under two   *)
(* executors that come and go and with everything that may happen to it,   *)
(* or rivals for one or two places.                                        *)
(***************************************************************************)
EXTENDS MachineLifecycle, TLC
CONSTANTS c1, c2, e1, e2

VARIABLE part
MCVars == <<vars, part>>

EitherSymmetry == Permutations(Companion) \cup Permutations(Executor)

Untouched(c) ==
  ~prepare[c] /\ admission[c] = "none" /\ status[c] = "new" /\ ~retired[c] /\ machine[c] = "none"

MCInit ==
  /\ Init /\ part \in {"alone", "rivals"}
  /\ part = "alone" => Untouched(c2) /\ limit = 1

Stays(A) == A /\ UNCHANGED part
MCNext ==
  \/ Stays(ConfigureLimits)
  \/ Stays(Lose)
  \/ Stays(Seen)
  \/ Stays(Observed)
  \/ \E e \in Executor : Stays(Acquire(e))
  \/ \E m \in wire : Stays(Deliver(m))
  \/ \E c \in Companion : Stays(RequestPreparation(c))
  \/ \E c \in Companion : Stays(AdmitQueued(c))
  \/ \E c \in Companion : Stays(Retire(c))
  \/ \E c \in Companion : Stays(FallAsleep(c))
  \/ \E c \in Companion : Stays(Elapse(c))
  \/ \E c \in Companion : Stays(Want(c))
  \/ \E c \in Companion : Stays(LoseEndpoint(c))
  \/ \E e \in Executor, c \in Companion : Stays(BeginPrepare(e, c))
  \/ \E e \in Executor, c \in Companion : Stays(PrepareStep(e, c))
  \/ \E e \in Executor, c \in Companion : Stays(RetireStep(e, c))
  \/ \E e \in Executor, c \in Companion : Stays(Abandon(e, c))
  \/ \E e \in Executor, c \in Companion : Stays(Observe(e, c))
MCSpec == MCInit /\ [][MCNext]_MCVars

\* Rivals have one executor, whose lease stays; no preparation takes five minutes, every
\* resume is answered, and nothing happens while an observation is under way.
Calm ==
  /\ leader' # e2 /\ (leader # None => leader' # None)
  /\ \A c \in Companion : started'[c] # "late"
  /\ \A m \in wire' : m.type # "stray"
  /\ watch # None => watch' # watch

\* While a resume is astray no preparation takes five minutes, the configuration stays, and
\* none else goes astray.
OneAstray ==
  (\E m \in wire' : m.type = "stray") =>
    woken' = {} /\ \A c \in Companion : started'[c] # "late" /\ (digest[c] => digest'[c])

OneOrRivals ==
  IF part = "alone" THEN Untouched(c2)' /\ limit' = 1 /\ OneAstray ELSE Calm
=============================================================================
