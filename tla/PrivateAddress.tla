--------------------------- MODULE PrivateAddress ---------------------------
(***************************************************************************)
(* Which hosts a client refuses by their literal form: isPrivateHost of    *)
(* src/infrastructure/http/private-address.ts, with the readers of         *)
(* src/domain/value-object/ip-address.ts.                                  *)
(*                                                                         *)
(* A WHATWG-serialised hostname is an IPv4 address, its four octets; an    *)
(* IPv6 literal, the groups before its :: and those after it (Null when it *)
(* has none); or a name, its labels, the last one empty when a dot ends    *)
(* it.  Octets and groups are counted from 1.                              *)
(***************************************************************************)
EXTENDS Integers, Sequences

CONSTANT Null

(* Null is neither an address nor half of one.                             *)
ASSUME NullAssumption == Null \notin Int /\ Null \notin [1..8 -> Int]

Octet == 0..255
Group == 0..65535

(* What a URL parser leaves as a hostname.                                 *)
IsHostname(host) ==
  \/ host \in [type : {"ipv4"}, octets : Seq(Octet)] /\ Len(host.octets) = 4
  \/ /\ host \in [type : {"ipv6"}, head : Seq(Group), tail : Seq(Group) \cup {Null}]
     /\ IF host.tail = Null THEN Len(host.head) = 8 ELSE Len(host.head) + Len(host.tail) <= 7
  \/ host \in [type : {"name"}, labels : Seq(STRING) \ {<<>>}]

(* The upper 16 bits of each range's base, and its prefix length.  No      *)
(* prefix is longer, so the shift reads the upper half of an address.      *)
PRIVATE_IPV4_RANGES ==
  {<<0, 8>>, <<2560, 8>>, <<25664, 10>>, <<32512, 8>>, <<43518, 16>>, <<44048, 12>>, <<49320, 16>>}

(* The shift by 32 - prefixLength drops the lower half and 16 -            *)
(* prefixLength bits of the upper one.                                     *)
DroppedBits(prefixLength) ==
  IF prefixLength = 8 THEN 256
  ELSE IF prefixLength = 10 THEN 64
  ELSE IF prefixLength = 12 THEN 16
  ELSE 1

InRange(high, range) == high \div DroppedBits(range[2]) = range[1] \div DroppedBits(range[2])

IsPrivateIpv4Value(high) == \E range \in PRIVATE_IPV4_RANGES : InRange(high, range)

IsPrivateIpv4(octets) == IsPrivateIpv4Value(octets[1] * 256 + octets[2])

TRAILING_IPV4_PREFIXES == {<<0, 0, 0, 0, 0, 0>>, <<0, 0, 0, 0, 0, 65535>>, <<100, 65435, 0, 0, 0, 0>>}

HasPrefix(groups, prefix) == \A i \in 1..6 : groups[i] = prefix[i]

(* The upper half of the IPv4 address an IPv6 address carries.             *)
EmbeddedIpv4(groups) ==
  IF \E prefix \in TRAILING_IPV4_PREFIXES : HasPrefix(groups, prefix) THEN groups[7]
  ELSE IF groups[1] = 8194 THEN groups[2] ELSE Null

(* A bug: one mask serves for unique local and link local addresses.       *)
IsPrivateIpv6UnderOneMask(groups) ==
  \/ groups[1] \div 512 \in {126, 127}
  \/ EmbeddedIpv4(groups) # Null /\ IsPrivateIpv4Value(EmbeddedIpv4(groups))

(* The masks 0xfe00 and 0xffc0 keep the first seven and ten bits.          *)
IsPrivateIpv6(groups) ==
  \/ groups[1] \div 512 = 126 \/ groups[1] \div 64 = 1018
  \/ EmbeddedIpv4(groups) # Null /\ IsPrivateIpv4Value(EmbeddedIpv4(groups))

(* parseIpv6Address: eight groups, or fewer around one ::.                 *)
ParseIpv6Address(head, tail) ==
  IF tail = Null THEN IF Len(head) = 8 THEN head ELSE Null
  ELSE IF Len(head) + Len(tail) > 7 THEN Null
  ELSE head \o [i \in 1..(8 - Len(head) - Len(tail)) |-> 0] \o tail

IsPrivateIpv6Literal(head, tail) ==
  LET groups == ParseIpv6Address(head, tail) IN IF groups = Null THEN FALSE ELSE IsPrivateIpv6(groups)

IsLocalhostName(labels) ==
  LET name == IF labels[Len(labels)] = "" THEN SubSeq(labels, 1, Len(labels) - 1) ELSE labels
  IN  name # <<>> /\ name[Len(name)] = "localhost"

IsPrivateHost(host) ==
  \/ host.type = "ipv6" /\ IsPrivateIpv6Literal(host.head, host.tail)
  \/ host.type = "ipv4" /\ IsPrivateIpv4(host.octets)
  \/ host.type = "name" /\ IsLocalhostName(host.labels)

-----------------------------------------------------------------------------
(* What is to be refused, octet by octet as the RFCs write the ranges:     *)
(* this network, private use, carrier-grade NAT, loopback and link local.  *)
InternalIpv4(a, b) ==
  \/ a \in {0, 10, 127}
  \/ a = 100 /\ b \in 64..127
  \/ a = 169 /\ b = 254
  \/ a = 172 /\ b \in 16..31
  \/ a = 192 /\ b = 168

(* Unique local, link local, or internal once the IPv4 address is taken    *)
(* out of ::/96, ::ffff:0:0/96, 64:ff9b::/96 or 2002::/16.                 *)
InternalIpv6(groups) ==
  \/ groups[1] \in 64512..65023 \cup 65152..65215
  \/ /\ \A i \in 2..5 : groups[i] = 0
     /\ groups[1] = 0 /\ groups[6] \in {0, 65535}
     /\ InternalIpv4(groups[7] \div 256, groups[7] % 256)
  \/ /\ groups[1] = 100 /\ groups[2] = 65435 /\ \A i \in 3..6 : groups[i] = 0
     /\ InternalIpv4(groups[7] \div 256, groups[7] % 256)
  \/ groups[1] = 8194 /\ InternalIpv4(groups[2] \div 256, groups[2] % 256)

(* The groups an IPv6 literal stands for, its :: read as zeros.            *)
Expanded(host) ==
  [i \in 1..8 |-> IF i <= Len(host.head) THEN host.head[i]
                  ELSE IF host.tail # Null /\ i > 8 - Len(host.tail) THEN host.tail[i - 8 + Len(host.tail)]
                  ELSE 0]

IsInternal(host) ==
  \/ host.type = "ipv4" /\ InternalIpv4(host.octets[1], host.octets[2])
  \/ host.type = "ipv6" /\ InternalIpv6(Expanded(host))
  \/ /\ host.type = "name"
     /\ LET count == Len(host.labels) IN
        \E i \in {count - 1, count} \ {0} :
          host.labels[i] = "localhost" /\ (i < count => host.labels[count] = "")
=============================================================================
