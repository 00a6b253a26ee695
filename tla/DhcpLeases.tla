----------------------------- MODULE DhcpLeases -----------------------------
(***************************************************************************)
(* The DHCP server of the sensor's setup mode (dhcp_server.c).  It keeps   *)
(* one entry per address: the client that has it, and of the time its      *)
(* lease ends only the upper half of a 32-bit count of milliseconds, which *)
(* it compares with the clock by the sign of a difference.                 *)
(*                                                                         *)
(* A datagram may be lost, delayed or repeated: an offer reserves nothing  *)
(* and is not kept, and a client may ask for any address at any time (one  *)
(* offered long ago, one it had before, one another client was offered).   *)
(* A request that names no address, or none of the range, is ignored       *)
(* (lines 242-255): a client renews by asking for the address it has.      *)
(***************************************************************************)
EXTENDS Integers

CONSTANTS
    Clients,     \* hardware addresses
    Free,        \* the address of all zeros, which marks a free entry
    Slots,       \* DHCPS_MAX_IP
    Coarse,      \* 2^16: the milliseconds an entry does not tell apart
    Half,        \* 2^31: half the range of the clock
    LeaseTime    \* DEFAULT_LEASE_TIME_S * 1000
ASSUME LeaseAssumption ==
    /\ Free \notin Clients
    /\ Slots \in Nat \ {0} /\ Coarse \in Nat \ {0} /\ LeaseTime \in Nat \ {0}
    /\ Half \in Nat /\ 2 * Half % Coarse = 0
    /\ LeaseTime + Coarse <= Half

VARIABLES
    lease,   \* lease: of each address, the client and the end, in coarse units
    now,     \* cyw43_hal_ticks_ms()
    held,    \* history: the address each client was last granted, and the time
             \* for which it may still use it
    age      \* history: the time since each address was last granted

dhcpVars == <<lease, now, held, age>>

Word == 2 * Half
Slot == 0..Slots - 1
OldAge == LeaseTime + Half + 1      \* older grants are not told apart

DhcpTypeOK ==
    /\ lease \in [Slot -> [mac : Clients \cup {Free}, expiry : 0..Word \div Coarse - 1]]
    /\ now \in 0..Word - 1
    /\ held \in [Clients -> [addr : Slot, left : 0..LeaseTime]]
    /\ age \in [Slot -> 0..OldAge]

-----------------------------------------------------------------------------
(* The clock *)

\* Mutant: the end is taken for the start of its coarse unit.
DeadlineLow(i) == lease[i].expiry * Coarse

\* expiry << 16 | 0xffff
Deadline(i) == lease[i].expiry * Coarse + Coarse - 1

\* Mutant: the two counts are compared as unsigned numbers.
ExpiredUnsigned(i) == Deadline(i) < now

\* (int32_t)(expiry - cyw43_hal_ticks_ms()) < 0
Expired(i) == (Deadline(i) - now) % Word >= Half

\* Mutant: the sum is not cut to 32 bits.
StampWide(t) == (t + LeaseTime) \div Coarse

\* The end of a lease given at t: 32 bits of sum, 16 of them kept
Stamp(t) == ((t + LeaseTime) % Word) \div Coarse

-----------------------------------------------------------------------------
(* A DISCOVER *)

Owned(c)  == {i \in Slot : lease[i].mac = c}
Available == {i \in Slot : lease[i].mac = Free \/ Expired(i)}

\* The address the search settles on: the client's own before any other
Offered(c) == LET own == Owned(c) IN IF own # {} THEN own ELSE Available

\* The search takes the first entry that is available, and frees it if its
\* lease has run out, even when it then finds the client's own behind it
Reclaimed(c) ==
    {i \in Available : /\ Expired(i)
                       /\ \A j \in Slot : j < i => j \notin Available \cup Owned(c)
                       /\ i \notin Owned(c)}

\* The client asks for an address; without one left to offer it gets no answer
Discover(c) ==
    /\ Offered(c) # {}
    /\ lease' = [i \in Slot |-> IF i \in Reclaimed(c)
                                THEN [lease[i] EXCEPT !.mac = Free] ELSE lease[i]]
    /\ UNCHANGED <<now, held, age>>

-----------------------------------------------------------------------------
(* A REQUEST for address i *)

\* Whoever has the entry may have the address, and anyone while it is free;
\* whether the lease has run out is not asked
MayHave(c, i) == lease[i].mac \in {c, Free}

\* The entry is the client's, and the answer may be lost on the way
Request(c, i) ==
    /\ MayHave(c, i)
    /\ lease' = [lease EXCEPT ![i] = [mac |-> c, expiry |-> Stamp(now)]]
    /\ age' = [age EXCEPT ![i] = 0]
    /\ held' \in {held, [held EXCEPT ![c] = [addr |-> i, left |-> LeaseTime]]}
    /\ UNCHANGED now

-----------------------------------------------------------------------------

\* A millisecond
Tick ==
    /\ now' = (now + 1) % Word
    /\ held' = [c \in Clients |-> [held[c] EXCEPT !.left = IF @ = 0 THEN 0 ELSE @ - 1]]
    /\ age' = [i \in Slot |-> IF age[i] = OldAge THEN OldAge ELSE age[i] + 1]
    /\ UNCHANGED lease

NoLeases == [i \in Slot |-> [mac |-> Free, expiry |-> 0]]
NoneHeld == [c \in Clients |-> [addr |-> 0, left |-> 0]]
LongAgo  == [i \in Slot |-> OldAge]

DhcpInit == lease = NoLeases /\ now = 0 /\ held = NoneHeld /\ age = LongAgo

\* The device leaves setup mode, or is reset, and enters it again: entries and
\* clock start anew.  The access point went away with the server, so every
\* client has lost its link and asks anew before it uses an address.
Restart == lease' = NoLeases /\ now' = 0 /\ held' = NoneHeld /\ age' = LongAgo

DhcpNext ==
    \/ \E c \in Clients : Discover(c) \/ \E i \in Slot : Request(c, i)
    \/ Tick
    \/ Restart

DhcpSpec == DhcpInit /\ [][DhcpNext]_dhcpVars

-----------------------------------------------------------------------------
(* Properties *)

\* No address is in use by two clients at once: an entry is given away only
\* after the time for which its client was told it may use it, although of the
\* end only the upper bits are kept and the clock wraps (dhcp_server.c:224)
NoDoubleLease ==
    \A c, d \in Clients :
        held[c].left > 0 /\ held[d].left > 0 /\ held[c].addr = held[d].addr => c = d

\* A client is turned away only when each address was granted within the
\* lease time and one coarse unit, or so long ago that the sign of the
\* difference has turned and its end seems to lie ahead (dhcp_server.c:225)
RefusedOnlyWhenFull ==
    \A c \in Clients : Offered(c) = {} =>
        \A i \in Slot : age[i] < LeaseTime + Coarse \/ age[i] = OldAge

=============================================================================
