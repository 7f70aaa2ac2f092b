----------------------------- MODULE SnmpClient -----------------------------
(***************************************************************************)
(* The SNMP client (snmp/client.py) as functions of what an agent answers: *)
(* a GET of many objects in PDUs of a few, a walk and the conversion of    *)
(* values.                                                                 *)
(*                                                                         *)
(* An agent is [version, holds, refuses, dies]: the type of each object it *)
(* has, the objects that cost it an error, and the number of PDUs after    *)
(* which it no longer answers.                                             *)
(***************************************************************************)
EXTENDS Integers, Sequences, FiniteSets, SequencesExt

CONSTANT GetBatch        \* GET_BATCH, varbinds per PDU
ASSUME BatchAssumption == GetBatch \in Nat \ {0}

Nothing == "None"        \* None

\* convert_value: what the caller gets for a value of a type.
Converted(type) ==
    CASE type \in {"NoSuchObject", "NoSuchInstance", "EndOfMibView", "Null"} -> Nothing
      [] type \in {"Integer", "Counter32", "Counter64", "Gauge32", "TimeTicks"} -> "int"
      [] type \in {"ObjectIdentifier", "IpAddress", "PrintableOctets"} -> "str"
      [] OTHER -> "bytes"

-----------------------------------------------------------------------------
(* An agent's answer to a PDU, the n-th it is sent (external).             *)

\* "noSuchName" of version 1 is for the whole PDU; later versions answer object by object.
Answer(agent, chunk, n) ==
    LET missing == {o \in Range(chunk) : o \notin DOMAIN agent.holds}
    IN  IF n > agent.dies THEN "timeout"
        ELSE IF Range(chunk) \cap agent.refuses # {} THEN "genErr"
        ELSE IF agent.version = 1 /\ missing # {} THEN "noSuchName"
        ELSE "values"

Value(agent, o) == Converted(IF o \in DOMAIN agent.holds THEN agent.holds[o] ELSE "NoSuchInstance")

Values(agent, chunk) == [o \in Range(chunk) |-> Value(agent, o)]

-----------------------------------------------------------------------------
(* get.                                                                    *)

\* The state of a call: what it has, how many PDUs it sent, and whether it raised.
Began == [values |-> [o \in {} |-> Nothing], sent |-> 0, raised |-> FALSE]

Extended(acc, more) ==
    [o \in DOMAIN acc.values \cup DOMAIN more |->
        IF o \in DOMAIN more THEN more[o] ELSE acc.values[o]]

\* self.get([oid]).
GetOne(agent, o, n) ==
    CASE Answer(agent, <<o>>, n) = "values"     -> [raised |-> FALSE, value |-> Value(agent, o)]
      [] Answer(agent, <<o>>, n) = "noSuchName" -> [raised |-> FALSE, value |-> Nothing]
      [] OTHER                                  -> [raised |-> TRUE, value |-> Nothing]

\* The retry of a PDU object by object: one that fails has no value.
OneByOne(agent, chunk, acc) ==
    FoldLeft(LAMBDA a, o : [a EXCEPT !.sent = @ + 1,
                                     !.values = Extended(a, [x \in {o} |-> GetOne(agent, o, a.sent + 1).value])],
             acc, chunk)

GetChunk(agent, acc, chunk) ==
    LET sent == [acc EXCEPT !.sent = @ + 1]
        answer == Answer(agent, chunk, sent.sent)
    IN  IF acc.raised THEN acc
        ELSE CASE answer = "timeout" -> [sent EXCEPT !.raised = TRUE]
               [] answer = "values"  -> [sent EXCEPT !.values = Extended(acc, Values(agent, chunk))]
               [] answer \in {"genErr", "noSuchName"} /\ Len(chunk) > 1 -> OneByOne(agent, chunk, sent)
               [] answer = "noSuchName" /\ Len(chunk) = 1 ->
                    [sent EXCEPT !.values = Extended(acc, [x \in Range(chunk) |-> Nothing])]
               [] OTHER -> [sent EXCEPT !.raised = TRUE]

\* PDUs of GetBatch objects, in the order asked for.
Chunks(oids) ==
    [k \in 1..((Len(oids) + GetBatch - 1) \div GetBatch) |->
        SubSeq(oids, ((k - 1) * GetBatch) + 1,
               IF k * GetBatch < Len(oids) THEN k * GetBatch ELSE Len(oids))]

Get(agent, oids) == FoldLeft(LAMBDA acc, chunk : GetChunk(agent, acc, chunk), Began, Chunks(oids))

\* snmp_check: SnmpError, or no sysUpTime, is down.
SnmpCheck(agent, sysUpTime) ==
    LET got == Get(agent, <<sysUpTime>>) IN ~got.raised /\ got.values[sysUpTime] # Nothing

-----------------------------------------------------------------------------
(* walk: the rows of a table, each [oid, under, type] for whether it is     *)
(* under the prefix, or [error].                                           *)

Walk(rows) ==
    LET stops(r) == r.error # ""
        stop == IF \E i \in DOMAIN rows : stops(rows[i]) THEN SelectInSeq(rows, stops) ELSE Len(rows) + 1
        kept == {i \in 1..stop - 1 : rows[i].under /\ rows[i].type # "EndOfMibView"}
    IN  [raised |-> stop <= Len(rows) /\ rows[stop].error # "noSuchName",
         values |-> [o \in {rows[i].oid : i \in kept} |->
                        Converted(rows[CHOOSE i \in kept : rows[i].oid = o].type)]]

=============================================================================
