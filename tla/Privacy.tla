------------------------------- MODULE Privacy -------------------------------
(***************************************************************************)
(* The privacy boundary in front of every decision engine:                 *)
(* privacy/redactor.py, boundary.py, models.py and the event of telemetry.py.*)
(*                                                                         *)
(* A text is a sequence of phrases that ordinary words keep apart. A phrase*)
(* has the label in front of it ("none" without one), the form of its      *)
(* value and the value's digits.                                           *)
(***************************************************************************)
EXTENDS Integers, Sequences, FiniteSetsExt, SequencesExt

Labels == {"none", "customer", "order", "name", "cvv"}

-----------------------------------------------------------------------------
(* Check digits *)

DigitSum(n) == IF n > 9 THEN n - 9 ELSE n

(* Fault: every other digit is doubled from the front. *)
LuhnFromFront(digits) ==
    /\ Len(digits) >= 10
    /\ MapThenSumSet(LAMBDA i : DigitSum(IF i % 2 = 1 THEN 2 * digits[i] ELSE digits[i]),
                     DOMAIN digits) % 10 = 0

(* _passes_luhn: every other digit from the one before the last is doubled. *)
Luhn(digits) ==
    LET doubled(i) == (Len(digits) - i) % 2 = 1
        sum == MapThenSumSet(LAMBDA i : IF doubled(i) THEN DigitSum(2 * digits[i]) ELSE digits[i],
                             DOMAIN digits)
    IN  Len(digits) >= 10 /\ sum % 10 = 0

(* _valid_iban, for characters 0..35 (letters from 10 on).                  *)
ValidIban(chars) ==
    LET append(rest, c) == (rest * (IF c > 9 THEN 100 ELSE 10) + c) % 97
    IN  /\ Len(chars) \in 15..34
        /\ chars[1] > 9 /\ chars[2] > 9 /\ chars[3] <= 9 /\ chars[4] <= 9
        /\ FoldLeft(append, 0, SubSeq(chars, 5, Len(chars)) \o SubSeq(chars, 1, 4)) = 1

LeapYear(y) == y % 4 = 0 /\ (y % 100 # 0 \/ y % 400 = 0)
DaysIn(y, m) == IF m = 2 THEN IF LeapYear(y) THEN 29 ELSE 28
                ELSE IF m \in {4, 6, 9, 11} THEN 30 ELSE 31
IsDate(y, m, d) == y >= 1 /\ m \in 1..12 /\ d \in 1..DaysIn(y, m)

(* Fault: a coordination number (its day is raised by 60) is no identity.   *)
ValidIdentityOrdinary(digits) ==
    LET short == SubSeq(digits, Len(digits) - 9, Len(digits))
        two(i) == 10 * short[i] + short[i + 1]
    IN  IsDate(2000 + two(1), two(3), two(5)) /\ Luhn(short)

(* _valid_swedish_identity_number *)
ValidIdentity(digits) ==
    LET short == SubSeq(digits, Len(digits) - 9, Len(digits))
        two(i) == 10 * short[i] + short[i + 1]
        year == IF Len(digits) = 12 THEN 1000 * digits[1] + 100 * digits[2] + two(1) ELSE 2000 + two(1)
    IN  IsDate(year, two(3), IF two(5) > 60 THEN two(5) - 60 ELSE two(5)) /\ Luhn(short)

-----------------------------------------------------------------------------
(* Redaction *)

(* _reject_payment_data. The patterns also find a label in front of a date  *)
(* or an address, and card numbers inside codes, which are not refused here.*)
IsPayment(p) ==
    \/ p.label = "cvv" /\ p.form = "number" /\ Len(p.digits) \in 3..4
    \/ p.form = "number" /\ Len(p.digits) \in 13..19 /\ Luhn(p.digits)
    \/ p.form = "iban" /\ ValidIban(p.digits)

IsCode(p) == p.form \in {"code", "number", "identity", "date"} /\ Len(p.digits) >= 4

(* Fault: only numbers that look like phone numbers are replaced, the short *)
(* ones that follow the name of an order are not.                          *)
MatchesUnlabelled(kind, p) ==
    CASE kind = "national_id" -> p.form = "identity" /\ ValidIdentity(p.digits)
      [] kind = "email" -> p.form = "email"
      [] kind = "name" -> p.label = "name" /\ p.form = "name"
      [] kind = "address" -> p.form = "address"
      [] kind = "phone" -> p.form \in {"number", "identity"} /\ Len(p.digits) \in 7..15
      [] OTHER -> FALSE

(* What the pattern of each kind finds in what earlier ones have left. *)
MatchesPattern(kind, p) ==
    CASE kind = "national_id" -> p.form = "identity" /\ ValidIdentity(p.digits)
      [] kind = "email" -> p.form = "email"
      [] kind = "customer_id" -> p.label = "customer" /\ IsCode(p)
      [] kind = "order_id" -> p.label = "order" /\ IsCode(p)
      [] kind = "name" -> p.label = "name" /\ p.form = "name"
      [] kind = "address" -> p.form = "address"
      [] kind = "phone" -> p.form \in {"number", "identity"} /\ Len(p.digits) \in 7..15

Kinds == <<"national_id", "email", "customer_id", "order_id", "name", "address", "phone">>

(* redact_text applies the patterns one after the other to the whole text   *)
(* and counts what each replaces; <<>> where it refuses the text.           *)
Replaced(r, kind) ==
    LET found == {i \in DOMAIN r.text : MatchesPattern(kind, r.text[i])}
    IN  [text |-> [i \in DOMAIN r.text |->
                      IF i \in found THEN [r.text[i] EXCEPT !.form = "redacted", !.digits = <<>>]
                      ELSE r.text[i]],
         counts |-> [r.counts EXCEPT ![kind] = Cardinality(found)]]

Redact(text) ==
    IF \E p \in Range(text) : IsPayment(p) THEN <<>>
    ELSE <<FoldLeft(Replaced, [text |-> text, counts |-> [k \in Range(Kinds) |-> 0]], Kinds)>>

-----------------------------------------------------------------------------
(* What may leave the worker *)

MODEL_CHANNELS == {"product_review", "delivery_survey", "support_ticket", "return_feedback", "site_feedback"}

(* prepare_text and to_decision_state: a language that is no plain tag and  *)
(* a channel of another system are left out ("").                           *)
DecisionState(text, language, channel) ==
    LET redacted == Redact(text)
    IN  IF redacted = <<>> THEN <<>>
        ELSE <<[text |-> redacted[1].text,
                language |-> IF language \in {"en", "sv-SE"} THEN language ELSE "",
                channel |-> IF channel \in MODEL_CHANNELS THEN channel ELSE ""]>>

(* to_audit_dict and redaction_event: counts, never the text. *)
AuditEvent(redacted) ==
    [total |-> MapThenSumSet(LAMBDA k : redacted.counts[k], DOMAIN redacted.counts),
     kinds |-> {k \in DOMAIN redacted.counts : redacted.counts[k] > 0}]

=============================================================================
