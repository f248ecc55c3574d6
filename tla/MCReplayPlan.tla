---------------------------- MODULE MCReplayPlan ----------------------------
(***************************************************************************)
(* A small instance of ReplayPlan: up to three events, spans that may be   *)
(* missing, shared, named like a fallback or too long, and requests with   *)
(* no spec, one spec or two specs of different kinds.                      *)
(***************************************************************************)
EXTENDS ReplayPlan, TLC

CONSTANTS k1, k2, k3, a, long, s1, s2, n1, n2, timeout, http_500

SomeKeys == {k1, k2, k3}
SomeNumbers == 1..2
SomeTimes == 1..2
SomeNames == {a, long, s1, s2}
SomeStepNames == 1 :> s1 @@ 2 :> s2

SpecsOf(kind) ==
  {x \in [kind : {kind}, step_id : {a, s1, None}, step_order : {1, 2, 4, None}] :
     x.step_id # None \/ x.step_order # None}

SomeRequests ==
  LET with(l) == [failure_injection |-> FALSE, injections |-> l]
  IN  {[failure_injection |-> f, injections |-> <<>>] : f \in BOOLEAN}
      \cup {with(<<x>>) : x \in SpecsOf(timeout)}
      \cup {with(<<x, y>>) : x \in SpecsOf(timeout), y \in SpecsOf(http_500)}

\* Of three events the spans are missing or shared, one normalizer works at a time,
\* and the client asks without having read.  A refusal and the end of the replay end
\* the behaviour, as nothing that is checked depends on them further.
Cases ==
  /\ Cardinality(events) = 3 =>
       /\ \A e \in events : e.span_id \in {a, None}
       /\ \E n \in Normalizers : \A m \in Normalizers \ {n} : draft[m] = <<>>
       /\ seen = <<>>
  /\ reply # None => job # None /\ results = <<>>

\* create_replay looks neither at drafts nor at timestamps: it comes when there are no
\* drafts, what was in flight before being written or aborted, and for events of one
\* timestamp.  After it, manifests of two events are compiled anew.
Rest ==
  /\ reply' # reply =>
       /\ \A n \in Normalizers : draft[n] = <<>>
       /\ \A e \in events : e.event_ts = 1
  /\ reply # None /\ draft' # draft => Cardinality(events) = 2

Symmetry == Permutations(SomeKeys) \cup Permutations(Normalizers)
=============================================================================
