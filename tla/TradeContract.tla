----------------------------- MODULE TradeContract -----------------------------
(***************************************************************************)
(* What a trade promises about what gamedbd holds for its two roles: it    *)
(* changes at most once, only after both agreed, and then exactly by the   *)
(* offers that stood when they agreed.  Money is one more kind of goods.   *)
(* A trade that is called off leaves the holdings alone: it just stops.    *)
(***************************************************************************)
EXTENDS Integers

CONSTANTS Party,     \* the two traders
          Kind,      \* kinds of goods, and money
          Holdings   \* [Kind -> Nat] functions a trader may start with

VARIABLES holding,   \* [Party -> [Kind -> Nat]], in the database
          offer,     \* [Party -> [Kind -> Nat]], what each puts up
          agreed,    \* both have confirmed
          swapped    \* the goods have changed hands

vars == <<holding, offer, agreed, swapped>>

Nothing == [k \in Kind |-> 0]

Init ==
    /\ holding \in [Party -> Holdings]
    /\ offer = [p \in Party |-> Nothing]
    /\ agreed = FALSE
    /\ swapped = FALSE

Partner(p) == CHOOSE q \in Party : q # p

\* A trader changes its offer within what it owns, as often as it likes.
ChangeOffer(p) ==
    /\ ~agreed
    /\ offer' \in [Party -> [Kind -> Nat]]
    /\ \A k \in Kind : offer'[p][k] <= holding[p][k]
    /\ offer'[Partner(p)] = offer[Partner(p)]
    /\ UNCHANGED <<holding, agreed, swapped>>

Agree ==
    /\ ~agreed
    /\ agreed' = TRUE
    /\ UNCHANGED <<holding, offer, swapped>>

Swap ==
    /\ agreed /\ ~swapped
    /\ holding' = [p \in Party |->
                     [k \in Kind |-> holding[p][k] - offer[p][k] + offer[Partner(p)][k]]]
    /\ swapped' = TRUE
    /\ UNCHANGED <<offer, agreed>>

Next == (\E p \in Party : ChangeOffer(p)) \/ Agree \/ Swap

Spec == Init /\ [][Next]_vars
=============================================================================
