------------------------------ MODULE Middleware ------------------------------
(***************************************************************************)
(* The middleware chain (packages/steveo/src/middleware.ts) around a        *)
(* handler: composePublish() around the sending of a message, and           *)
(* composeConsume(), which is the same, around the handling of one.  Each   *)
(* function gets a next() that dispatches the one after it, and the last    *)
(* one's next() dispatches the handler.                                     *)
(*                                                                         *)
(* External: the functions themselves.  An orderly one calls next() once,   *)
(* awaits it and ends as it has ended; a wild one calls next() at any time, *)
(* as often as it likes, even after it has ended, and ends as it likes; and *)
(* a middleware may lack the function.  What they do to the context is left *)
(* out.                                                                     *)
(***************************************************************************)
EXTENDS Naturals

CONSTANTS
    Length,     \* how many middleware there are
    Natures,    \* what they may be like: "orderly", "wild" or "absent"
    Runs        \* the runs of the chain

ASSUME MiddlewareAssumption ==
    /\ Length \in Nat
    /\ Natures # {} /\ Natures \subseteq {"orderly", "wild", "absent"}

Chain == 1 .. Length
Handler == Length + 1

VARIABLES
    nature,     \* what every middleware is like
    index,      \* the last link that every run has dispatched, 0 if none
    link        \* every link of every run: a function or the handler

mwVars == <<nature, index, link>>

MwTypeOK ==
    /\ nature \in [Chain -> Natures]
    /\ index \in [Runs -> 0 .. Handler]
    /\ link \in [Runs -> [1 .. Handler -> {"off", "running", "ok", "bad"}]]

MwInit ==
    /\ nature \in [Chain -> Natures]
    /\ index = [r \in Runs |-> 0]
    /\ link = [r \in Runs |-> [k \in 1 .. Handler |-> "off"]]

Lacking(k) == k \in Chain /\ nature[k] = "absent"

\* Seeded fault: next() may be called several times.
Dispatch_Again(r, k) ==
    /\ index' = [index EXCEPT ![r] = k]
    /\ link' = [link EXCEPT ![r][k] = IF Lacking(k) THEN "ok" ELSE "running"]
    /\ UNCHANGED nature

\* dispatch(): what was dispatched before is not again (the promise that
\* next() returns is rejected, which is all that happens).  Without a function
\* the chain ends there, and well.
Dispatch(r, k) ==
    /\ k > index[r]
    /\ index' = [index EXCEPT ![r] = k]
    /\ link' = [link EXCEPT ![r][k] = IF Lacking(k) THEN "ok" ELSE "running"]
    /\ UNCHANGED nature

Ends(r, k, result) == link' = [link EXCEPT ![r][k] = result]

CallNext(r, k) ==
    /\ k \in Chain
    /\ \/ nature[k] = "wild" /\ link[r][k] # "off"
       \/ nature[k] = "orderly" /\ link[r][k] = "running" /\ link[r][k + 1] = "off"
    /\ Dispatch(r, k + 1)

Return(r, k) ==
    /\ k \in Chain
    /\ link[r][k] = "running"
    /\ \E result \in {"ok", "bad"} :
          /\ nature[k] = "wild" \/ link[r][k + 1] = result
          /\ Ends(r, k, result)
    /\ UNCHANGED <<nature, index>>

\* What became of the run: the promise of the first link.
Outcome(r) == link[r][1]
Orderly == \A k \in Chain : nature[k] = "orderly"
=============================================================================
