----------------------------- MODULE DiffEngine -----------------------------
(***************************************************************************)
(* difference(oldS, newS) of src/pkg/ipam/backend/neutron/mix_store.go,    *)
(* the diff engine that finds the address Neutron allocated: Reserve sends *)
(* the port's fixed-IP list plus a subnet-only entry and gets the whole    *)
(* list back, in Neutron's order.  The operator is translated over lists   *)
(* of {subnet, addr} records and checked, for every pair of small lists,   *)
(* against the reference: the one entry of the reply that was not sent.   *)
(* MixStore abstracts difference to "the new address of the reply";     *)
(* MCMixStore checks, at the step that calls difference, that the         *)
(* translation agrees with that abstraction on every bounded reply.       *)
(***************************************************************************)
EXTENDS Naturals, Sequences, SequencesExt

CONSTANTS
    Subnets,   \* subnet IDs
    Addrs,     \* IP addresses
    MaxLen,    \* the longest fixed-IP list sent
    NoIP       \* difference returned nil

IP == [subnet : Subnets, addr : Addrs]

\* Fixed-IP lists as Neutron returns them: no entry twice, any order.
Lists(n) == {s \in SetToAllKPermutations(IP) : Len(s) <= n}

-----------------------------------------------------------------------------
\* Variant: entries compared on IPAddress alone.
MatchedAddrOnly(ip, oldS) == \E j \in 1..Len(oldS) : ip.addr = oldS[j].addr

\* The inner loop: some old entry has the same IPAddress and SubnetID.
Matched(ip, oldS) ==
    \E j \in 1..Len(oldS) :
        ip.addr = oldS[j].addr /\ ip.subnet = oldS[j].subnet

\* The outer loop from position i: the first new entry no old entry matches.
RECURSIVE FirstUnmatched(_, _, _)
FirstUnmatched(newS, oldS, i) ==
    IF i > Len(newS) THEN NoIP
    ELSE IF ~Matched(newS[i], oldS) THEN newS[i]
    ELSE FirstUnmatched(newS, oldS, i + 1)

difference(oldS, newS) ==
    IF Len(newS) <= Len(oldS) THEN NoIP ELSE FirstUnmatched(newS, oldS, 1)

-----------------------------------------------------------------------------
(* Properties *)

\* A reply to an update that added one entry: the sent entries, one more,
\* in any order.
Reply(oldS, newS) ==
    Len(newS) = Len(oldS) + 1 /\ Range(oldS) \subseteq Range(newS)

\* For every reply, in whatever order Neutron lists it, difference returns
\* exactly the entry Neutron added, also when that address already occurs
\* on the port under another subnet.
DiffMatchesReference ==
    \A old \in Lists(MaxLen), new \in Lists(MaxLen + 1) :
        Reply(old, new) =>
            difference(old, new) = CHOOSE x \in Range(new) : x \notin Range(old)

=============================================================================
