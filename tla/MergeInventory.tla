---------------------------- MODULE MergeInventory ----------------------------
(***************************************************************************)
(* How a trader's pocket absorbs the goods it receives                     *)
(* (cnet/gdeliveryd/trade.cpp, Trader::MergeInventory).                    *)
(*                                                                         *)
(* A TradeItems vector is a sequence of stacks; a stack has the template   *)
(* id of its goods, the pocket position it lies at and a count.  The       *)
(* max_count of an item is a function of its id here, MaxCount; the other  *)
(* fields of GRoleInventory travel with the stack and are left out.        *)
(***************************************************************************)
EXTENDS Integers, Sequences, FiniteSets, SequencesExt, FiniteSetsExt

CONSTANTS Ids,       \* template ids of goods
          MaxCount   \* [Ids -> Nat \ {0}], the size of a full stack

ASSUME MaxCountAssumption == MaxCount \in [Ids -> Nat \ {0}]

Stack == [id : Ids, pos : Nat, count : Nat]

\* The positions a pocket of this capacity has, and those no stack lies at.
Slots(capacity) == 0 .. capacity - 1
FreeSlots(stacks, capacity) ==
    Slots(capacity) \ {stacks[i].pos : i \in DOMAIN stacks}

(***************************************************************************)
(* One received item first fills the stacks of its id that are not full,   *)
(* in the order they lie in the vector.                                    *)
(*                                                                         *)
(* A definition named Mut... is a plausible mistake in the definition that *)
(* follows it; the runs show that a property notices the mistake.          *)
(***************************************************************************)
MutTopUpOneOverfull(acc, i, id) ==
    LET s   == acc.stacks[i]
        put == Min({MaxCount[id] + 1 - s.count, acc.left})
    IN IF s.id = id /\ s.count < MaxCount[id]
       THEN [stacks |-> [acc.stacks EXCEPT ![i].count = @ + put], left |-> acc.left - put]
       ELSE acc

TopUpOne(acc, i, id) ==
    LET s   == acc.stacks[i]
        put == Min({MaxCount[id] - s.count, acc.left})
    IN IF s.id = id /\ s.count < MaxCount[id]
       THEN [stacks |-> [acc.stacks EXCEPT ![i].count = @ + put],
             left   |-> acc.left - put]
       ELSE acc

TopUp(stacks, item) ==
    FoldLeft(LAMBDA acc, i : TopUpOne(acc, i, item.id),
             [stacks |-> stacks, left |-> item.count],
             [i \in 1 .. Len(stacks) |-> i])

(***************************************************************************)
(* What is left of it becomes a stack of its own in the lowest free slot;  *)
(* without a free slot the merge stops there and fails.                    *)
(***************************************************************************)
MutMergeOneWholeItem(acc, item) ==
    LET filled == TopUp(acc.result, item)
        slot   == Min(acc.free)
    IN IF ~acc.ok THEN acc
       ELSE IF filled.left = 0 THEN [acc EXCEPT !.result = filled.stacks]
       ELSE IF acc.free = {} THEN [acc EXCEPT !.ok = FALSE, !.result = filled.stacks]
       ELSE [ok     |-> TRUE,
             result |-> Append(filled.stacks, [item EXCEPT !.pos = slot]),
             free   |-> acc.free \ {slot}]

MergeOne(acc, item) ==
    LET filled == TopUp(acc.result, item)
        slot   == Min(acc.free)
    IN IF ~acc.ok THEN acc
       ELSE IF filled.left = 0 THEN [acc EXCEPT !.result = filled.stacks]
       ELSE IF acc.free = {}
            THEN [acc EXCEPT !.ok = FALSE, !.result = filled.stacks]
       ELSE [ok     |-> TRUE,
             result |-> Append(filled.stacks,
                               [id |-> item.id, pos |-> slot, count |-> filled.left]),
             free   |-> acc.free \ {slot}]

MutKeptWithEmpty(possession) == possession

\* Stacks whose whole count was offered stay in the vector with count 0;
\* they are not carried over and their slot is free again.
Kept(possession) ==
    FoldLeft(LAMBDA kept, s : IF s.count # 0 THEN Append(kept, s) ELSE kept, <<>>, possession)

Merge(possession, toFill, capacity) ==
    FoldLeft(MergeOne,
             [ok     |-> TRUE,
              result |-> Kept(possession),
              free   |-> FreeSlots(Kept(possession), capacity)],
             toFill)

-----------------------------------------------------------------------------
(***************************************************************************)
(* Reference definitions, independent of the order of either vector.  A    *)
(* stack is in use when something is left of it.                           *)
(***************************************************************************)
TotalOf(stacks, id) ==
    SumFunction([i \in 1 .. Len(stacks) |->
                    IF stacks[i].id = id THEN stacks[i].count ELSE 0])

\* What the stacks of one id that are in use can still take.
RoomFor(stacks, id) ==
    SumFunction([i \in 1 .. Len(stacks) |->
                    IF stacks[i].id = id /\ stacks[i].count > 0
                    THEN MaxCount[id] - stacks[i].count ELSE 0])

CeilDiv(a, b) == (a + b - 1) \div b

SlotsNeeded(possession, toFill, id) ==
    CeilDiv(Max({0, TotalOf(toFill, id) - RoomFor(possession, id)}), MaxCount[id])

SlotsInUse(stacks) == {stacks[i].pos : i \in {j \in DOMAIN stacks : stacks[j].count > 0}}

Fits(possession, toFill, capacity) ==
    SumFunction([id \in {toFill[i].id : i \in DOMAIN toFill} |->
                    SlotsNeeded(possession, toFill, id)])
        <= Cardinality(Slots(capacity) \ SlotsInUse(possession))

=============================================================================
