----------------------------- MODULE Timestamps -----------------------------
(***************************************************************************)
(* A UTC timestamp of a predicate (timestamps.startedAt / finishedAt) or   *)
(* of a verifier context (now) is a text of the form                       *)
(*         YYYY-MM-DDTHH:MM:SS[.fraction]Z                                 *)
(* It is represented by the ordinal of the fixed-width part before the     *)
(* fraction (whose text order is its numeric order) and by the digits of   *)
(* the fraction, <<>> when the text has none.  Two readers of the same     *)
(* text disagree about it: CUE compares bytes, Rego parses an instant.     *)
(***************************************************************************)
EXTENDS Integers, Sequences

CONSTANTS FirstSecond,   \* the seconds whose instant fits the signed 64-bit
          LastSecond     \* nanosecond count of time.parse_rfc3339_ns

ASSUME TimestampBounds == FirstSecond \in Int /\ LastSecond \in Int

\* Bound: a fraction has at most three digits.
Timestamp == [second : Int, fraction : UNION {[1..n -> 0..9] : n \in 0..3}]

\* Bytes after the seconds, by rank: "." (0x2E) < "0".."9" < "Z" (0x5A).
Dot == -1
Zulu == 10
AfterSeconds(t) == IF t.fraction = <<>> THEN <<Zulu>> ELSE <<Dot>> \o t.fraction \o <<Zulu>>

BytesLess(a, b) ==
    \E n \in DOMAIN a \cap DOMAIN b :
        /\ a[n] < b[n]
        /\ \A m \in 1..(n - 1) : a[m] = b[m]

\* CUE's >= on two strings: #Timestamps.finishedAt: #RFC3339UTC & >=startedAt.
TextAtLeast(t, u) ==
    \/ t.second > u.second
    \/ t.second = u.second /\ ~BytesLess(AfterSeconds(t), AfterSeconds(u))

\* The instant, in thousandths of a second.
Digit(t, i) == IF i \in DOMAIN t.fraction THEN t.fraction[i] ELSE 0
TicksPerSecond == 1000
Instant(t) == TicksPerSecond * t.second + 100 * Digit(t, 1) + 10 * Digit(t, 2) + Digit(t, 3)

\* time.parse_rfc3339_ns: a built-in error, hence an undefined value, outside
\* the years a 64-bit nanosecond count can hold.
Parses(t) == t.second \in FirstSecond..LastSecond

\* now - finished > window_seconds * 1000000000: later than the window only;
\* an instant in the future is never too old.
TooOld(t, now, window) == Instant(now) - Instant(t) > window * TicksPerSecond

=============================================================================
