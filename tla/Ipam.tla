-------------------------------- MODULE Ipam ---------------------------------
(***************************************************************************)
(* IPv4 address management (ipam/ipv4.go) and the address part of a        *)
(* configuration plan (configuration/plan.go), as operators.               *)
(*                                                                         *)
(* An address is the number ipv4Uint32 gives.  A network is a record: base *)
(* is its address, total = 2^(32 - prefix) its size and dyn its            *)
(* ipv4.dynamic_pool_size.                                                 *)
(***************************************************************************)
EXTENDS Integers

\* Usable client addresses: network, server and broadcast are reserved.
ClientCapacity(n) == n.total - 3

\* What NewIPv4Layout and domain.NewNetwork accept: a /30 or larger whose
\* address has no host bits, and a pool that fits.
ValidNetwork(n) ==
    /\ n.base \in Nat /\ n.total \in Nat /\ n.dyn \in Nat
    /\ n.total >= 4
    /\ n.base % n.total = 0
    /\ n.dyn <= ClientCapacity(n)

\* The static region starts after the server and the dynamic pool is the tail.
ClientFirst(n)   == n.base + 2

\* (Variant: the broadcast address is in the pool.)
ClientLastBroadcast(n) == n.base + n.total - 1

ClientLast(n)    == n.base + n.total - 2
StaticRange(n)   == ClientFirst(n)..(ClientFirst(n) + (ClientCapacity(n) - n.dyn) - 1)
DynamicRange(n)  == (ClientLast(n) - n.dyn + 1)..ClientLast(n)

\* The addresses NextStatic may return: the lowest unused one, none when the
\* region is exhausted or an existing assignment lies outside of it.
NextStatic(n, used) ==
    {a \in StaticRange(n) \ used :
        /\ used \subseteq StaticRange(n)
        /\ \A b \in StaticRange(n) \ used : a <= b}

\* The prefix of the new network with the host bits of the old address.
MapHostBits(a, n) == n.base + (a % n.total)

-----------------------------------------------------------------------------
(***************************************************************************)
(* remapAddresses goes over the static clients, in the order of their      *)
(* names, three times.  old maps them to their addresses, which differ,    *)
(* name to their names.                                                    *)
(***************************************************************************)
\* (Variant: no first pass.)
KeptNone(n, old) == {}

\* The first pass: an address that is valid in the new network stays.
Kept(n, old) == {c \in DOMAIN old : old[c] \in StaticRange(n)}

\* The second pass: host bits are preserved where that address is not used; of
\* several clients with the same host bits the first one gets it.
Mapped(n, old, name) ==
    {c \in DOMAIN old \ Kept(n, old) :
        /\ MapHostBits(old[c], n) \in StaticRange(n) \ {old[d] : d \in Kept(n, old)}
        /\ \A d \in DOMAIN old \ Kept(n, old) :
              MapHostBits(old[d], n) = MapHostBits(old[c], n) => name[c] <= name[d]}

\* The third pass gives the rest the lowest unused address.  The result, or
\* nothing when no address remains for some client (ErrPlanConflict).
RemapStatic(n, old, name) ==
    LET early == Kept(n, old) \cup Mapped(n, old, name)
        rest  == DOMAIN old \ early
    IN  {f \in [DOMAIN old -> StaticRange(n)] :
            /\ \A c \in Kept(n, old) : f[c] = old[c]
            /\ \A c \in Mapped(n, old, name) : f[c] = MapHostBits(old[c], n)
            /\ \A c \in rest :
                  LET done == early \cup {d \in rest : name[d] < name[c]}
                  IN  f[c] \in NextStatic(n, {f[d] : d \in done})}
=============================================================================
