----------------------------- MODULE PhoneNumber -----------------------------
(***************************************************************************)
(* core/phone.py: one spelling for every way a number is said or typed.    *)
(*                                                                         *)
(* A text is a sequence of symbols: digits, "+", the extension mark "x"    *)
(* (for "x", "ext", "extension") and Space, for white space.  Hyphens, dots*)
(* and parentheses are dropped as Space is, and left out; a text with one  *)
(* of them before its "+", which then counts for nothing, is outside.      *)
(***************************************************************************)
EXTENDS Naturals, Sequences, FiniteSetsExt, SequencesExt, Selection

CONSTANTS
    Digits,                     \* the digits in use
    default_country_code,       \* a sequence of digits, without its "+"
    _MIN_DIGITS, _MAX_DIGITS,
    Space, None

ASSUME PhoneAssumption ==
    /\ default_country_code \in Seq(Digits)
    /\ {_MIN_DIGITS, _MAX_DIGITS} \subseteq Nat

\* The marks are told from the digits and from each other, and a country code is
\* no number, not even said twice.
ASSUME SpellingAssumption ==
    /\ Digits \cap {"+", "x", Space} = {} /\ Space \notin {"+", "x"}
    /\ 2 * Len(default_country_code) < _MIN_DIGITS

\* str.strip
strip(text) ==
    LET ink == {i \in DOMAIN text : text[i] # Space} IN
    IF ink = {} THEN <<>> ELSE SubSeq(text, Min(ink), Max(ink))

\* str.split without its spaces
squeeze(text) == only(text, ToSet(text) \ {Space})

\* Fault: no pause between the mark and the extension.
extension_at_close(text, i) ==
    /\ text[i] = "x"
    /\ i > 1 => text[i - 1] \notin Digits \cup {"x"}
    /\ LET tail == SubSeq(text, i + 1, Len(text))
       IN  tail # <<>> /\ ToSet(tail) \subseteq Digits

\* \b(?:ext|extension|x)\.?\s*\d+\s*$ : a mark that begins a word and has
\* nothing but digits behind it, at least one.
extension_at(text, i) ==
    /\ text[i] = "x"
    /\ i > 1 => text[i - 1] \notin Digits \cup {"x"}
    /\ LET tail == strip(SubSeq(text, i + 1, Len(text)))
       IN  tail # <<>> /\ ToSet(tail) \subseteq Digits

\* _EXTENSION.sub("", text)
without_extension(text) ==
    LET marks == {i \in DOMAIN text : extension_at(text, i)} IN
    IF marks = {} THEN text ELSE SubSeq(text, 1, Min(marks) - 1)

\* _NON_DIALLABLE.sub("", text).replace("+", "")
digits_of(text) == only(text, Digits)

\* text.lstrip().startswith("+")
had_plus(text) == LET ink == squeeze(text) IN ink # <<>> /\ ink[1] = "+"

\* A number that carries its country code is left alone.
national(digits) ==
    IF /\ IsPrefix(default_country_code, digits)
       /\ Len(digits) > Len(default_country_code)
    THEN digits ELSE default_country_code \o digits

\* f"+{candidate}"
canonical(number) == <<"+">> \o number

normalize_phone(raw) ==
    LET text      == without_extension(strip(raw))
        digits    == digits_of(text)
        candidate == IF had_plus(text) THEN digits ELSE national(digits)
    IN  IF digits = <<>> \/ Len(candidate) \notin _MIN_DIGITS.._MAX_DIGITS
        THEN None ELSE canonical(candidate)

-----------------------------------------------------------------------------
\* What has been normalised once is left alone: the number a session keeps
\* and the number in the sheet can be normalised again without parting ways
\* (services/authentication.py:117, integrations/sheets/customers.py:51-52).
Idempotent(text) ==
    LET once == normalize_phone(text) IN
    once # None => normalize_phone(once) = once

\* However a caller spells a number (with or without the country code, with
\* separators anywhere, with an extension said after a pause), it reaches one
\* row (core/phone.py:3-8).  A national number that begins with the digits of
\* the country code is taken to carry it, and is set aside here.
SpelledAlike(text) ==
    LET number == squeeze(text)
        whole  == normalize_phone(number)
    IN  ToSet(number) \subseteq Digits /\ ~IsPrefix(default_country_code, number) =>
        /\ normalize_phone(text) = whole
        /\ normalize_phone(<<Space>> \o text) = whole
        /\ normalize_phone(default_country_code \o text) = whole
        /\ normalize_phone(<<Space, "+">> \o default_country_code \o text) = whole
        /\ \A d \in Digits : normalize_phone(text \o <<Space, "x", Space, d>>) = whole

=============================================================================
