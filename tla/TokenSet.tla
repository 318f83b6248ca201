------------------------------ MODULE TokenSet ------------------------------
(***************************************************************************)
(* The set of leased tokens as the pool code uses it: insert a token that  *)
(* is not in it, ask for a token to be taken out, forget everything.       *)
(***************************************************************************)
EXTENDS Integers, FiniteSets

CONSTANTS
  LeaseTokens, \* the tokens a pool hands out
  AskedTokens  \* the tokens poolRelease is called with

VARIABLES
  tokens, \* the tokens in use
  size,   \* their number
  answer  \* what the last operation answered

vars == <<tokens, size, answer>>

Init == tokens = {} /\ size = 0 /\ answer = TRUE

Insert(t) ==
  /\ t \notin tokens
  /\ tokens' = tokens \cup {t}
  /\ size' = size + 1
  /\ answer' = TRUE

TakeOut(t) ==
  /\ tokens' = tokens \ {t}
  /\ size' = IF t \in tokens THEN size - 1 ELSE size
  /\ answer' = (t \in tokens)

Forget == tokens' = {} /\ size' = 0 /\ answer' = TRUE

Next == \/ \E t \in LeaseTokens : Insert(t)
        \/ \E t \in AskedTokens : TakeOut(t)
        \/ Forget

Spec == Init /\ [][Next]_vars
=============================================================================
