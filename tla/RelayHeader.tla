---------------------------- MODULE RelayHeader ----------------------------
(***************************************************************************)
(* The checksums of the packets http_proxy.c rewrites.  A packet is its    *)
(* address (two words), its port, one word for everything that stays, and  *)
(* the IP and TCP checksums; rewrite_dst() and rewrite_src() change one    *)
(* end of it and patch both sums (RFC 1624).  Base is 2^16 in the program. *)
(***************************************************************************)
EXTENDS Integers

CONSTANT Base

ASSUME BaseAssumption == Base \in Nat /\ Base >= 2

VARIABLE hdr

Word == 0 .. Base - 1
Compl(w) == Base - 1 - w                 \* (uint16_t)~w
Fold(s) == (s % Base) + (s \div Base)    \* (s & 0xffff) + (s >> 16)

\* Mutant: one fold only, as if a carry could not itself carry.
csum_adj_one_fold(sum, old, new) ==
  Compl(Fold(Compl(sum) + Compl(old) + new) % Base)

csum_adj(sum, old, new) ==
  Compl(Fold(Fold(Compl(sum) + Compl(old) + new)) % Base)

csum_adj32(sum, old, new) ==
  csum_adj(csum_adj(sum, old[1], new[1]), old[2], new[2])

rewrite(h, ip, port) ==
  [h EXCEPT !.ip = ip, !.port = port,
            !.ipsum = csum_adj32(@, h.ip, ip),
            !.tcpsum = csum_adj(csum_adj32(@, h.ip, ip), h.port, port)]

Packets == [ip : Word \X Word, port : Word, rest : Word \ {0},
            ipsum : Word, tcpsum : Word]

\* What a receiver does: the one's complement sum over everything, the
\* checksum included, is all ones.
Total(h) == h.ip[1] + h.ip[2] + h.rest
Good(total) == Fold(Fold(total)) = Base - 1
Accepted(h) ==
  /\ Good(Total(h) + h.ipsum)
  /\ Good(Total(h) + h.port + h.tcpsum)

\* A packet as lwIP or the phone sends it, its sums computed in full.
Sent(ip, port, rest) ==
  LET part == ip[1] + ip[2] + rest
  IN  [ip |-> ip, port |-> port, rest |-> rest,
       ipsum |-> Compl(Fold(Fold(part))),
       tcpsum |-> Compl(Fold(Fold(part + port)))]

HeaderInit ==
  \E ip \in Word \X Word, port \in Word, rest \in Word \ {0} :
    hdr = Sent(ip, port, rest)

\* The input hook sends a packet of the phone to the relay; the output hook
\* gives an answer of the relay the address of the site.
rewrite_dst(ip, port) == hdr' = rewrite(hdr, ip, port)
rewrite_src(ip, port) == hdr' = rewrite(hdr, ip, port)

HeaderNext ==
  \E ip \in Word \X Word, port \in Word :
    rewrite_dst(ip, port) \/ rewrite_src(ip, port)

-----------------------------------------------------------------------------
(* http_proxy.c:230-285: whatever addresses and ports a packet is given, and
   however often, its receiver finds both checksums right. *)
ChecksumsStayRight == hdr \in Packets /\ Accepted(hdr)

=============================================================================
