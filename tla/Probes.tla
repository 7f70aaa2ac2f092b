------------------------------- MODULE Probes -------------------------------
(***************************************************************************)
(* Availability probes (checks/probes.py) as functions of what the network *)
(* and the operating system do: ping over ICMP sockets, the ping command   *)
(* or TCP, and the checks of a TCP port, of a URL and of an SNMP agent.    *)
(* A result is [ok, why].                                                  *)
(***************************************************************************)
EXTENDS Integers, Sequences, FiniteSets, SequencesExt

Up(why) == [ok |-> TRUE, why |-> why]
Down(why) == [ok |-> FALSE, why |-> why]

\* The element at which a loop that returns at the first that is decisive returns.
FirstWhere(seq, P(_), else) ==
    IF \E i \in DOMAIN seq : P(seq[i]) THEN seq[SelectInSeq(seq, P)] ELSE else

-----------------------------------------------------------------------------
(* ICMP sockets.  A packet is [type, ours, target, quoted, full]: whether   *)
(* its sequence number and identifier are ours, it comes from the target,  *)
(* it quotes our request, and it has an ICMP header at all.                *)

\* detect_icmp_mode: forced, or the first that works.
DetectMode(forced, os, hasPing) ==
    LET command == IF hasPing THEN "exec" ELSE "tcp"
    IN  IF forced # "" THEN forced
        ELSE IF os.windows THEN command
        ELSE IF os.raw THEN "raw" ELSE IF os.dgram THEN "dgram" ELSE command

\* Mutant of Seen: a raw socket hears the replies to every ping of this host.
SeenByAll(p, raw) == p.full

\* Raw sockets see every ICMP packet that comes in.
Seen(p, raw) == (raw => p.target) /\ p.full

\* _ping_socket: the first packet that decides, else the timeout.
PingSocket(packets, raw) ==
    LET decides(p) == Seen(p, raw) /\ (p.type = "reply" => p.ours) /\ p.type # "other"
        result(p) == CASE p.type = "reply"       -> Up("echo reply")
                       [] p.type = "unreachable" -> Down("unreachable")
                       [] p.type = "ttl"         -> Down("TTL exceeded")
                       [] OTHER                  -> Down("timeout")
    IN  result(FirstWhere(packets, decides, [type |-> "none"]))

-----------------------------------------------------------------------------
(* TCP.  A connection attempt is "open", "refused", "timeout" or "error".  *)

TcpCheck(attempt, refusedIsUp) ==
    CASE attempt = "open"    -> Up("open")
      [] attempt = "refused" -> [ok |-> refusedIsUp, why |-> "refused"]
      [] OTHER               -> Down(attempt)

\* _tcp_ping: ports in turn.
TcpPing(ports) ==
    IF \E i \in DOMAIN ports : TcpCheck(ports[i], TRUE).ok THEN Up("host reachable") ELSE Down("no response")

-----------------------------------------------------------------------------
(* The ping command.  A run is [starts, ends, code, says], says being what *)
(* its output holds: "time", "ttl", "unreachable" or "nothing".            *)

ParsePingOutput(says, code) ==
    IF code = 0 /\ says \in {"time", "ttl"} THEN Up("echo reply")
    ELSE IF says = "unreachable" THEN Down("unreachable") ELSE Down("timed out")

PingExec(run, ports) ==
    IF ~run.starts THEN TcpPing(ports)
    ELSE IF ~run.ends THEN Down("timeout")
    ELSE ParsePingOutput(run.says, run.code)

-----------------------------------------------------------------------------
(* ping.                                                                   *)

\* An attempt is [error, packets, run, ports]: error is "" or what the socket raises.  The mode
\* is shared by all pings; a socket that is of no use changes it for good.
Attempt(mode, hasPing, a) ==
    LET command == IF hasPing THEN "exec" ELSE "tcp"
        with(m) == IF m = "exec" THEN PingExec(a.run, a.ports) ELSE TcpPing(a.ports)
    IN  IF mode \notin {"raw", "dgram"} THEN [result |-> with(mode), mode |-> mode, switched |-> FALSE]
        ELSE CASE a.error = "" ->
                    [result |-> PingSocket(a.packets, mode = "raw"), mode |-> mode, switched |-> FALSE]
               [] a.error = "unreachable" ->
                    [result |-> Down("ICMP error"), mode |-> mode, switched |-> FALSE]
               [] OTHER -> [result |-> with(command), mode |-> command, switched |-> TRUE]

\* resolved is whether the name has an address; IPv6 is not pinged by a socket.  shared is the
\* mode other pings find afterwards.
Ping(resolved, v6, mode, hasPing, attempts) ==
    LET own == IF v6 /\ mode \in {"raw", "dgram"} THEN IF hasPing THEN "exec" ELSE "tcp" ELSE mode
        step(acc, a) ==
          IF acc.result.ok THEN acc
          ELSE LET t == Attempt(acc.mode, hasPing, a)
               IN  [result |-> t.result, mode |-> t.mode, by |-> a,
                    shared |-> IF t.switched THEN t.mode ELSE acc.shared]
    IN  IF ~resolved THEN [result |-> Down("DNS"), mode |-> own, by |-> <<>>, shared |-> mode]
        ELSE FoldLeft(step, [result |-> Down("no reply"), mode |-> own, by |-> <<>>, shared |-> mode],
                      attempts)

-----------------------------------------------------------------------------
(* URLs.  A response is [fails, status, keyword, days]: whether the request *)
(* raises, whether the keyword is in the text, the days left of the        *)
(* certificate, or Unknown.                                                *)

Unknown == -1000
NoKeyword == "none"

\* status_matches: a set of parts, [lo, hi] for "200", "200-399" and "2xx" alike.
StatusMatches(code, spec) == \E part \in spec : part.lo <= code /\ code <= part.hi

\* options: [expected, keyword, https, certDays], keyword being "none", "present" or "absent".
HttpCheck(r, o) ==
    IF r.fails THEN Down("error")
    ELSE IF ~StatusMatches(r.status, o.expected) THEN Down("status")
    ELSE IF o.keyword # NoKeyword /\ r.keyword = (o.keyword = "absent") THEN Down("keyword")
    ELSE IF o.certDays # 0 /\ o.https /\ r.days # Unknown /\ r.days < o.certDays THEN Down("certificate")
    ELSE Up("HTTP")
=============================================================================
