----------------------------- MODULE Membership -----------------------------
(***************************************************************************)
(* What the master's server list promises to the cluster: an ordered list  *)
(* of addresses that the master heads for ever, to which a server adds     *)
(* itself at the end and from which only an address that is there is       *)
(* taken, its first occurrence.  How the list is linked, what its nodes    *)
(* are and how one is searched do not appear here.  Clients shard records  *)
(* by position in the list, so the order is part of the promise.           *)
(***************************************************************************)
EXTENDS SequencesExt

CONSTANTS Addresses,  \* addresses of servers other than the master
          Master      \* the address of the master

VARIABLE members    \* the addresses, in the order clients number them

MemberInit == members = <<Master>>

Join(a)  == members' = Append(members, a)

Leave(a) == /\ Contains(members, a)
            /\ members' = RemoveFirst(members, a)

MemberNext == \E a \in Addresses : Join(a) \/ Leave(a)

MemberSpec == MemberInit /\ [][MemberNext]_members
=============================================================================
