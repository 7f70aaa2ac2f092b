------------------------------ MODULE Buckets ------------------------------
(***************************************************************************)
(* Buckets of samples, as storage.py groups them: a rollup row is          *)
(* [bucket, of], the samples it was made of standing for its count,        *)
(* average and extremes.                                                   *)
(***************************************************************************)
EXTENDS Integers

Bucket(ts, p) == (ts \div p) * p

Row(p, of) == [bucket |-> Bucket(CHOOSE t \in of : TRUE, p), of |-> of]

\* GROUP BY ts / period.
Grouped(of, p) == {Row(p, {t \in of : Bucket(t, p) = b}) : b \in {Bucket(t, p) : t \in of}}
=============================================================================
