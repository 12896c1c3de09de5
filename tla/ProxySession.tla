---------------------------- MODULE ProxySession ----------------------------
(***************************************************************************)
(* One relay session of http_proxy.c (sess_t), from the accepted           *)
(* connection to its close.  Bytes come in units: a request head of        *)
(* `size' units "h", then the body; the proxy's answer is a sequence of    *)
(* units too.  A socket is ready whenever it may be: readiness is a choice *)
(* of each half of a step.                                                 *)
(***************************************************************************)
EXTENDS Naturals, Sequences
Seqs == INSTANCE SequencesExt

CONSTANTS UP_SZ, DOWN_SZ,   \* buffer sizes in units
          Requests,         \* [tls, host, target, size, ok]
          Body, Answers     \* what follows the head; what a proxy answers

ASSUME SessionAssumption ==
  /\ UP_SZ \in Nat \ {0} /\ DOWN_SZ \in Nat \ {0, 1}
  /\ Requests \subseteq [tls : BOOLEAN, host : {"name", "none"},
                         target : {"path", "absolute"},
                         size : Nat \ {0}, ok : BOOLEAN]
  /\ Body \in Seq(STRING) /\ Answers \subseteq Seq(STRING)

VARIABLE c

Heads(n) == [k \in 1 .. n |-> "h"]
PhoneStream(req) == Heads(req.size) \o Body
Drop(s, n) == SubSeq(s, n + 1, Len(s))

\* http_rewrite(): the request line names the server in full, by the Host
\* header or else by the address the phone dialled.
http_rewrite(req) ==
  CASE req.target = "absolute"                       -> "GET as asked"
    [] req.target = "path" /\ req.host = "name"      -> "GET name"
    [] OTHER                                         -> "GET address"
\* tls_sni(), with the same fallback (head_ready).
tls_sni(req) == IF req.host = "name" THEN "CONNECT name" ELSE "CONNECT address"

Session(req, ans) ==
  [used |-> TRUE, st |-> "S_HEAD", req |-> req, ans |-> ans,
   up |-> << >>, up_off |-> 0, down |-> << >>, down_off |-> 0,
   ph_pos |-> 0, px_pos |-> 0, to_px |-> << >>, to_ph |-> << >>,
   ph_eof |-> FALSE, px_eof |-> FALSE, px_shut |-> FALSE,
   late |-> FALSE, why |-> "none"]

SessionInit == \E req \in Requests, ans \in Answers : c = Session(req, ans)

sess_closed(s, why) == [s EXCEPT !.used = FALSE, !.why = why]

-----------------------------------------------------------------------------
(* A setup stage.  Every stage starts its own deadline. *)

on_connected(s) ==
  IF s.req.tls
  THEN {[s EXCEPT !.st = "S_REPLY", !.down = << >>, !.late = FALSE,
                  !.to_px = <<tls_sni(s.req)>>],
        sess_closed(s, "sending CONNECT failed")}
  ELSE {[s EXCEPT !.st = "S_SPLICE", !.up_off = 0, !.late = FALSE]}

\* proxy_addr() has none: no setting, or a name that does not resolve.
NoProxyAddress(s) == sess_closed(s, "no proxy")

start_connect(s) ==
  on_connected(s)
    \union {[s EXCEPT !.st = "S_CONNECTING", !.late = FALSE],
            sess_closed(s, "connect failed"), NoProxyAddress(s)}

\* Mutant: the body that came with the head is left behind.
head_ready_no_body(s) ==
  IF Len(s.up) < s.req.size /\ Len(s.up) < UP_SZ THEN {s}
  ELSE IF s.req.tls THEN start_connect(s)
  ELSE IF Len(s.up) < s.req.size THEN {sess_closed(s, "head too large")}
  ELSE IF ~s.req.ok THEN {sess_closed(s, "can't parse")}
  ELSE start_connect([s EXCEPT !.up = <<http_rewrite(s.req)>>])

\* A TLS hello that does not fit is passed on as far as it has come; an HTTP
\* head has to be complete.
head_ready(s) ==
  IF Len(s.up) < s.req.size /\ Len(s.up) < UP_SZ THEN {s}
  ELSE IF s.req.tls THEN start_connect(s)
  ELSE IF Len(s.up) < s.req.size THEN {sess_closed(s, "head too large")}
  ELSE IF ~s.req.ok THEN {sess_closed(s, "can't parse")}
  ELSE {sess_closed(s, "out of memory")} \union start_connect(
         [s EXCEPT !.up = <<http_rewrite(s.req)>> \o Drop(@, s.req.size)])

\* The first "ok" or "no" of an answer ends its head.
ReplyHead(down) == {k \in 1 .. Len(down) : down[k] \in {"ok", "no"}}
ReplyEnd(down) == CHOOSE k \in ReplyHead(down) : \A j \in ReplyHead(down) : k <= j

reply_ready(s) ==
  IF ReplyHead(s.down) = {}
  THEN IF Len(s.down) >= DOWN_SZ - 1 THEN {sess_closed(s, "reply too large")}
       ELSE {s}
  ELSE LET k == ReplyEnd(s.down)
       IN  IF s.down[k] = "no" THEN {sess_closed(s, "refused")}
           ELSE {[s EXCEPT !.down = Drop(@, k), !.down_off = 0, !.up_off = 0,
                           !.st = "S_SPLICE", !.late = FALSE]}

\* recv() into a buffer with room for n units: some of what is left to read.
FromPhone(s, n) ==
  LET left == Drop(PhoneStream(s.req), s.ph_pos)
  IN  {k \in 1 .. n : k <= Len(left)}
FromProxy(s, n) ==
  LET left == Drop(s.ans, s.px_pos) IN {k \in 1 .. n : k <= Len(left)}
PhoneTaken(s, k) == SubSeq(PhoneStream(s.req), s.ph_pos + 1, s.ph_pos + k)
ProxyTaken(s, k) == SubSeq(s.ans, s.px_pos + 1, s.px_pos + k)

ServiceHead ==
  /\ c.used /\ c.st = "S_HEAD"
  /\ \/ c' = sess_closed(c, "phone closed")
     \/ \E k \in FromPhone(c, UP_SZ - Len(c.up)) :
          c' \in head_ready([c EXCEPT !.up = @ \o PhoneTaken(c, k),
                                      !.ph_pos = @ + k])

ServiceConnecting ==
  /\ c.used /\ c.st = "S_CONNECTING"
  /\ \/ c' = sess_closed(c, "connect failed")
     \/ c' \in on_connected(c)

ServiceReply ==
  /\ c.used /\ c.st = "S_REPLY"
  /\ \/ c' = sess_closed(c, "proxy closed after CONNECT")
     \/ \E k \in FromProxy(c, DOWN_SZ - 1 - Len(c.down)) :
          c' \in reply_ready([c EXCEPT !.down = @ \o ProxyTaken(c, k),
                                       !.px_pos = @ + k])

-----------------------------------------------------------------------------
(* splice(): at most one transfer each way, then the ends of the streams. *)

Sendable(buf, off) == 1 .. Len(buf) - off
Flushed(off, buf) == off = Len(buf)

UpHalf(s) ==
  IF s.up_off < Len(s.up)
  THEN {LET sent == [s EXCEPT !.to_px = @ \o SubSeq(s.up, s.up_off + 1, s.up_off + k),
                              !.up_off = @ + k, !.late = FALSE]
        IN  IF Flushed(sent.up_off, s.up)
            THEN [sent EXCEPT !.up = << >>, !.up_off = 0] ELSE sent :
          k \in Sendable(s.up, s.up_off)}
       \union {s, sess_closed(s, "proxy write error")}
  ELSE {s} \union
       (IF s.up = << >> /\ ~s.ph_eof
        THEN {[s EXCEPT !.up = PhoneTaken(s, k), !.up_off = 0, !.late = FALSE,
                        !.ph_pos = @ + k] : k \in FromPhone(s, UP_SZ)}
             \union {sess_closed(s, "phone reset")}
             \union {t \in {[s EXCEPT !.ph_eof = TRUE]} :
                       s.ph_pos = Len(PhoneStream(s.req))}
        ELSE {})

DownHalf(s) ==
  IF s.down_off < Len(s.down)
  THEN {LET sent == [s EXCEPT !.to_ph = @ \o SubSeq(s.down, s.down_off + 1, s.down_off + k),
                              !.down_off = @ + k, !.late = FALSE]
        IN  IF Flushed(sent.down_off, s.down)
            THEN [sent EXCEPT !.down = << >>, !.down_off = 0] ELSE sent :
          k \in Sendable(s.down, s.down_off)}
       \union {s, sess_closed(s, "phone write error")}
  ELSE {s} \union
       (IF s.down = << >> /\ ~s.px_eof
        THEN {[s EXCEPT !.down = ProxyTaken(s, k), !.down_off = 0, !.late = FALSE,
                        !.px_pos = @ + k] : k \in FromProxy(s, DOWN_SZ)}
             \union {sess_closed(s, "proxy reset")}
             \union {t \in {[s EXCEPT !.px_eof = TRUE]} : s.px_pos = Len(s.ans)}
        ELSE {})

Finish(s) ==
  LET shut == IF s.ph_eof /\ s.up = << >> THEN [s EXCEPT !.px_shut = TRUE] ELSE s
  IN  IF s.px_eof /\ s.down = << >> THEN sess_closed(shut, "done") ELSE shut

splice ==
  /\ c.used /\ c.st = "S_SPLICE"
  /\ \E s \in UpHalf(c) :
       IF ~s.used THEN c' = s
       ELSE \E t \in DownHalf(s) : c' = IF t.used THEN Finish(t) ELSE t

\* The deadline of the stage passes, and the relay task's next pass sees it.
TimePasses == c.used /\ ~c.late /\ c' = [c EXCEPT !.late = TRUE]

\* Mutant: only sessions that splice are timed.
DeadlineClose_idle_only ==
  /\ c.used /\ c.late /\ c.st = "S_SPLICE"
  /\ c' = sess_closed(c, "timed out")

DeadlineClose ==
  /\ c.used /\ c.late
  /\ c' = sess_closed(c, "timed out")

SessionNext ==
  \/ ServiceHead \/ ServiceConnecting \/ ServiceReply \/ splice
  \/ TimePasses \/ DeadlineClose

SessionFairness == WF_c(TimePasses) /\ WF_c(DeadlineClose)

-----------------------------------------------------------------------------
(* What each end is to receive, computed from the whole streams. *)
ForProxy(req) ==
  IF req.tls THEN <<tls_sni(req)>> \o PhoneStream(req)
  ELSE <<http_rewrite(req)>> \o Body
ForPhone(req, ans) ==
  IF req.tls /\ ReplyHead(ans) # {}
  THEN Drop(ans, ReplyEnd(ans)) ELSE ans

(* http_proxy.c:667-769: however the transfers are cut up, the proxy gets the
   rewritten head (or CONNECT) and then the phone's bytes, the phone gets the
   proxy's answer without the reply to CONNECT, each in order and without a
   gap; the end of the phone's stream is passed on only behind its last byte,
   and a session that is "done" has delivered the whole answer. *)
RelayedInOrder ==
  /\ Seqs!IsPrefix(c.to_px, ForProxy(c.req))
  /\ Seqs!IsPrefix(c.to_ph, ForPhone(c.req, c.ans))
  /\ c.px_shut => c.to_px = ForProxy(c.req)
  /\ c.why = "done" => c.to_ph = ForPhone(c.req, c.ans)

(* http_proxy.c:952-961: whatever stage a session has reached and whoever has
   fallen silent, it ends and its slot is free again. *)
SessionEnds == c.used ~> ~c.used

=============================================================================
