------------------------------- MODULE Limits -------------------------------
(***************************************************************************)
(* The spend-limit rules of internal/domain/limits: what an account may    *)
(* spend per window, when a window counts, and whether one more request is *)
(* admitted.                                                               *)
(*                                                                         *)
(* A limits.Set is a list in which Validate lets no window repeat, so it   *)
(* is modelled as a function from window lengths to amounts.  The stored   *)
(* windows of one account, keyed in the table by their length, are a       *)
(* function from lengths to rows (or NoRow).  Time is in minutes, money in whole      *)
(* units of an arbitrarily small coin.                                     *)
(***************************************************************************)
EXTENDS Integers, FiniteSets

CONSTANTS
    Lengths,    \* the window lengths in play, in minutes
    MaxWindow,  \* limits.MaxWindow, in minutes
    MaxAmount,  \* limits.MaxAmountUSD
    MaxRules,   \* limits.MaxRules
    Inherit,    \* a nil *limits.Set: the account has no set of its own
    NoRow       \* the account has no window of that length stored

ASSUME LengthsAssumption ==
    /\ MaxWindow \in Nat
    /\ MaxAmount \in Nat
    /\ MaxRules \in Nat
    /\ Lengths \subseteq 1 .. MaxWindow

\* What Validate lets through: a window at most once, within bounds, and a
\* positive amount within bounds.
IsRuleSet(set) ==
    /\ DOMAIN set \subseteq Lengths
    /\ Cardinality(DOMAIN set) <= MaxRules
    /\ set \in [DOMAIN set -> 1 .. MaxAmount]

\* One row of limit_windows, and the rows of one account.
Row == [started : Nat, spent : Nat]
Rows == [Lengths -> Row \cup {NoRow}]

ASSUME NoRowAssumption == NoRow \notin Row

NoRules == [l \in {} |-> 0]
NoRows == [l \in Lengths |-> NoRow]

\* The lengths an account has a row for.
Stored(rows) == {l \in Lengths : rows[l] # NoRow}

-----------------------------------------------------------------------------

Effective(custom, defaults) == IF custom = Inherit THEN defaults ELSE custom

EndsAt(rows, l) == rows[l].started + l

LiveAt(rows, l, now) == now < EndsAt(rows, l)

\* The windows Decide finds exhausted.
Exhausted(set, rows, now) ==
    {l \in DOMAIN set \cap Stored(rows) :
        LiveAt(rows, l, now) /\ rows[l].spent >= set[l]}

\* The rule a refusal names: of the exhausted ones, one whose window ends
\* last (which of several ending together depends on the list's order).
\* BlockingFirst is a variant that names the one ending first.
BlockingFirst(set, rows, now) ==
    CHOOSE l \in Exhausted(set, rows, now) :
        \A k \in Exhausted(set, rows, now) : EndsAt(rows, l) <= EndsAt(rows, k)
Blocking(set, rows, now) ==
    CHOOSE l \in Exhausted(set, rows, now) :
        \A k \in Exhausted(set, rows, now) : EndsAt(rows, k) <= EndsAt(rows, l)

Blocked(set, rows, now) == Exhausted(set, rows, now) # {}

\* When the refusal ends.
ResetsAt(set, rows, now) == EndsAt(rows, Blocking(set, rows, now))

\* The windows an admitted request opens: those missing or expired.
\* DueMissing forgets the expired ones.
DueMissing(set, rows, now) == DOMAIN set \ Stored(rows)
Due(set, rows, now) ==
    {l \in DOMAIN set : l \in Stored(rows) => ~ LiveAt(rows, l, now)}

\* Stored windows no rule of the set has.
Orphans(set, rows) == Stored(rows) \ DOMAIN set

-----------------------------------------------------------------------------

\* States: what the cabinet shows of a rule, the live window or zeroes.
\* StateStrict is a variant that shows a window spent to the cent as open.
NotLive == [started |-> 0, spent |-> 0, resets |-> 0, exhausted |-> FALSE]

State(set, rows, now, l) ==
    IF l \in Stored(rows) /\ LiveAt(rows, l, now)
    THEN [started |-> rows[l].started, spent |-> rows[l].spent,
          resets |-> EndsAt(rows, l), exhausted |-> rows[l].spent >= set[l]]
    ELSE NotLive

\* SpentPercent: 100 only when exhausted, otherwise rounded down and capped.
SpentPercent(set, state, l) ==
    LET share == (state.spent * 100) \div set[l]
    IN  IF state.exhausted THEN 100 ELSE IF share > 99 THEN 99 ELSE share

=============================================================================
