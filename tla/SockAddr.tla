------------------------------ MODULE SockAddr ------------------------------
(***************************************************************************)
(* compareSockAddr (src/src/Utils.h), the equality of socket addresses     *)
(* that the MAC table and the broadcast use, and the equality they mean.   *)
(*                                                                         *)
(* The transport's socket is bound to "::", so that an IPv4 peer is heard  *)
(* behind an IPv4-mapped IPv6 address, while the configured core peer and  *)
(* the peers of a response are AF_INET addresses.  An IPv6 address is four *)
(* words, a mapped one is <<0, 0, FFFF, IPv4 address>>.                    *)
(***************************************************************************)
EXTENDS Naturals

CONSTANTS
    Words,  \* the 32-bit words that occur in addresses
    Ports,
    FFFF    \* the word 0x0000ffff

ASSUME WordsAssumption == {0, FFFF} \subseteq Words /\ FFFF # 0

V4 == [family : {"inet"}, ip : [1..1 -> Words], port : Ports]
V6 == [family : {"inet6"}, ip : [1..4 -> Words], port : Ports]

NoFamily == [family |-> "unspec"]  \* sockaddr_storage{}

V4Mapped(addr) == addr.family = "inet6" /\ addr.ip[1] = 0 /\ addr.ip[2] = 0 /\ addr.ip[3] = FFFF

Inet(word, port) == [family |-> "inet", ip |-> <<word>>, port |-> port]
Mapped(word, port) == [family |-> "inet6", ip |-> <<0, 0, FFFF, word>>, port |-> port]

(* What is meant: an address and its mapped form are one endpoint.         *)
Endpoint(addr) ==
    IF V4Mapped(addr) THEN Inet(addr.ip[4], addr.port) ELSE addr

SameEndpoint(addr1, addr2) ==
    addr1 # NoFamily /\ Endpoint(addr1) = Endpoint(addr2)

(* mutant: the ports are not compared *)
compareIp(addr1, addr2) ==
    NoFamily \notin {addr1, addr2} /\ Endpoint(addr1).ip = Endpoint(addr2).ip

(* compareSockAddr, in the order of its tests; the comparison of a mapped  *)
(* address with one that is not looks at the first word of the latter.     *)
compareSockAddr(addr1, addr2) ==
    LET samePort == addr1.port = addr2.port
    IN CASE addr1.family = "inet" /\ addr2.family = "inet" ->
              addr1.ip = addr2.ip /\ samePort
         [] addr1.family = "inet" /\ V4Mapped(addr2) ->
              addr1.ip[1] = addr2.ip[4] /\ samePort
         [] V4Mapped(addr1) /\ addr2.family = "inet" ->
              addr1.ip[4] = addr2.ip[1] /\ samePort
         [] addr1.family = "inet6" /\ addr2.family = "inet6" ->
              (CASE V4Mapped(addr1) /\ ~V4Mapped(addr2) -> addr1.ip[4] = addr2.ip[1]
                 [] ~V4Mapped(addr1) /\ V4Mapped(addr2) -> addr1.ip[1] = addr2.ip[4]
                 [] OTHER -> addr1.ip = addr2.ip) /\ samePort
         [] OTHER -> FALSE

(* An IPv6 address that is no mapped one begins with the four bytes of a   *)
(* mapped one, and the ports are equal: what compareSockAddr takes for one *)
(* endpoint and is two.                                                    *)
Confused(addr1, addr2) ==
    /\ V4Mapped(addr1)
    /\ addr2.family = "inet6" /\ ~V4Mapped(addr2)
    /\ addr2.ip[1] = addr1.ip[4] /\ addr2.port = addr1.port
=============================================================================
