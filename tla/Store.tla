------------------------------- MODULE Store --------------------------------
(***************************************************************************)
(* What the implementations of DocumentDB (socket.go) have in common: what *)
(* they store, and how long.  Time passes in units that are the unit of    *)
(* all periods.                                                            *)
(***************************************************************************)
EXTENDS Naturals, Sequences, Functions

CONSTANTS
    DocID, TokenID, User,
    Contents,       \* data that calls bring along
    Permission,     \* permissions of tokens
    KeyName,
    Expiration,     \* db.expiration, 0 for never
    CleanInterval,  \* the hour between two cleanings
    MaxVersion,     \* bound: key versions 1..MaxVersion
    MaxTime,        \* bound: the clock
    MaxLength       \* bound: document length

ASSUME TimeAssumption == {Expiration, CleanInterval, MaxTime} \subseteq Nat
ASSUME BoundsAssumption == {MaxVersion, MaxLength} \subseteq Nat

Empty == [x \in {} |-> x]
Without(f, S) == Restrict(f, DOMAIN f \ S)
Unit == UNION {Range(s) : s \in Contents}

ASSUME ContentsAssumption == Contents \subseteq Seq(Unit)
=============================================================================
