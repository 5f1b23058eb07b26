------------------------------ MODULE SheetRows ------------------------------
(***************************************************************************)
(* integrations/sheets/rows.py and what customers.py and claims.py make of *)
(* the rows: hand-edited sheets whose columns move, whose rows are short or*)
(* malformed, and whose dates come in three formats.                       *)
(*                                                                         *)
(* A sheet is the sequence of rows the API returns, the header first.  A   *)
(* name in the header is a string ("" where the cell is blank); a cell is a*)
(* sequence of symbols, <<>> when blank.  Domain names are in lower case.  *)
(***************************************************************************)
EXTENDS PhoneNumber

CONSTANTS
    ClaimStatus,    \* the statuses the enum knows
    Months,         \* how many months a year has
    Days            \* how many days a month has

ASSUME CalendarAssumption == {Months, Days} \subseteq Nat

CUSTOMER_COLUMNS == {"customer_id", "full_name", "phone_number", "verification_value"}
CLAIM_COLUMNS == {"claim_id", "customer_id", "status", "required_documents", "last_updated"}

-----------------------------------------------------------------------------
\* Fault: blank cells of the header are skipped and not counted.
index_header_packed(header) ==
    LET names == only(header, ToSet(header) \ {""})
    IN  [name \in ToSet(names) |-> Max({n \in DOMAIN names : names[n] = name})]

\* index_header, with a column's last position where a name is repeated.
index_header(header) ==
    [name \in ToSet(header) \ {""} |-> Max({n \in DOMAIN header : header[n] = name})]

\* _cell: the API omits the trailing blank cells of a row.
_cell(row, index, column) ==
    IF index[column] <= Len(row) THEN strip(row[index[column]]) ELSE <<>>

blank(row, index, columns) == \E c \in columns : _cell(row, index, c) = <<>>

parse_customer_row(row, index) ==
    LET number == normalize_phone(_cell(row, index, "phone_number")) IN
    IF blank(row, index, CUSTOMER_COLUMNS) \/ number = None THEN None
    ELSE [customer_id        |-> _cell(row, index, "customer_id"),
          full_name          |-> _cell(row, index, "full_name"),
          phone_number       |-> number,
          verification_value |-> _cell(row, index, "verification_value")]

\* A day as a number; no date at all is before every day.
day(month, date) == (month - 1) * Days + date
NoDate == 0

\* parse_date: a cell is <<"iso", month, date>> or <<"slash", n, n>>.  The formats
\* are tried in order: a slash date is read day first whenever it can be.
parse_date(text) ==
    IF Len(text) # 3 THEN NoDate
    ELSE LET a == text[2]  b == text[3] IN
         CASE text[1] = "iso" -> day(a, b)
           [] text[1] = "slash" /\ a <= Days /\ b <= Months -> day(b, a)
           [] text[1] = "slash" /\ ~(a <= Days /\ b <= Months)
              /\ a <= Months /\ b <= Days -> day(a, b)
           [] OTHER -> NoDate

parse_claim_row(row, index) ==
    LET status == _cell(row, index, "status") IN
    IF blank(row, index, {"claim_id", "customer_id", "status"}) THEN None
    ELSE IF status[1] \notin ClaimStatus THEN None
    ELSE [claim_id     |-> _cell(row, index, "claim_id"),
          customer_id  |-> _cell(row, index, "customer_id"),
          status       |-> status[1],
          last_updated |-> parse_date(_cell(row, index, "last_updated"))]

\* Fault: the scan ends at the first malformed row.
parsed_until(rows) ==
    LET bad == {n \in DOMAIN rows : rows[n] = None} IN
    IF bad = {} THEN rows ELSE SubSeq(rows, 1, Min(bad) - 1)

\* The rows that can be used, in their order.
parsed(rows) == only(rows, ToSet(rows) \ {None})

\* _load_rows: an empty sheet, or one without a column we need, is an
\* IntegrationError (None), never an empty list.
unreadable(sheet, columns) == sheet = <<>> \/ ~ columns \subseteq ToSet(Head(sheet))

customers_in(sheet) ==
    IF unreadable(sheet, CUSTOMER_COLUMNS) THEN None
    ELSE LET index == index_header(Head(sheet))
         IN  parsed([n \in 1..Len(sheet) - 1 |-> parse_customer_row(sheet[n + 1], index)])

claims_in(sheet) ==
    IF unreadable(sheet, CLAIM_COLUMNS) THEN None
    ELSE LET index == index_header(Head(sheet))
         IN  parsed([n \in 1..Len(sheet) - 1 |-> parse_claim_row(sheet[n + 1], index)])

\* next((row for row in rows if ...), None), of the rows that are hits.
first(rows, hits) == IF hits = {} THEN None ELSE rows[Min(hits)]

-----------------------------------------------------------------------------
\* CustomerRow.to_customer: the verification value stays behind.
to_customer(row) ==
    [customer_id |-> row.customer_id, full_name |-> row.full_name,
     phone_number |-> row.phone_number]

\* CustomerLookupResult, VerificationResult
CustomerResult(outcome, customer, reason) ==
    [outcome |-> outcome, customer |-> customer, reason |-> reason]

\* ClaimLookupResult
ClaimResult(outcome, claim) == [outcome |-> outcome, claim |-> claim]

lookup_customer_by_phone(sheet, phone_number) ==
    LET normalised == normalize_phone(phone_number)
        rows       == customers_in(sheet)
        match      == first(rows, {n \in DOMAIN rows : rows[n].phone_number = normalised})
    IN  IF normalised = None
        THEN CustomerResult("CUSTOMER_NOT_FOUND", None, "INVALID_PHONE_NUMBER")
        ELSE IF rows = None
        THEN CustomerResult("INTEGRATION_ERROR", None, "MALFORMED_DATA")
        ELSE IF match = None
        THEN CustomerResult("CUSTOMER_NOT_FOUND", None, "NO_MATCHING_RECORD")
        ELSE CustomerResult("CUSTOMER_FOUND", to_customer(match), None)

\* _values_match
_values_match(expected, supplied) == squeeze(expected) = squeeze(supplied)

verify_customer(sheet, customer_id, verification_value) ==
    LET rows  == customers_in(sheet)
        match == first(rows, {n \in DOMAIN rows : rows[n].customer_id = customer_id})
    IN  IF customer_id = <<>> \/ strip(verification_value) = <<>>
        THEN CustomerResult("VERIFICATION_FAILED", None, None)
        ELSE IF rows = None
        THEN CustomerResult("INTEGRATION_ERROR", None, "MALFORMED_DATA")
        ELSE IF match = None
        THEN CustomerResult("CUSTOMER_NOT_FOUND", None, "NO_MATCHING_RECORD")
        ELSE IF _values_match(match.verification_value, verification_value)
        THEN CustomerResult("VERIFIED", to_customer(match), None)
        ELSE CustomerResult("VERIFICATION_FAILED", None, None)

\* Fault: a claim without a date counts as the newest.
_most_recent_undated(claims) ==
    LET dated(c) == IF c.last_updated = NoDate THEN Months * Days + 1 ELSE c.last_updated
        latest   == Max({dated(claims[n]) : n \in DOMAIN claims})
    IN  first(claims, {n \in DOMAIN claims : dated(claims[n]) = latest})

\* _most_recent: the first of the last updated.
_most_recent(claims) ==
    LET latest == Max({claims[n].last_updated : n \in DOMAIN claims})
    IN  first(claims, {n \in DOMAIN claims : claims[n].last_updated = latest})

get_claim_for_customer(sheet, customer_id) ==
    LET rows    == claims_in(sheet)
        matches == only(rows, {claim \in ToSet(rows) : claim.customer_id = customer_id})
    IN  IF customer_id = <<>> THEN ClaimResult("CLAIM_NOT_FOUND", None)
        ELSE IF rows = None THEN ClaimResult("INTEGRATION_ERROR", None)
        ELSE IF matches = <<>> THEN ClaimResult("CLAIM_NOT_FOUND", None)
        ELSE ClaimResult("CLAIM_FOUND", _most_recent(matches))

-----------------------------------------------------------------------------
\* A row as somebody thinks of it, column by column, written under a header.
written(header, record) ==
    [n \in DOMAIN header |-> IF header[n] \in DOMAIN record THEN record[header[n]] ELSE <<>>]

\* The API's rendering: trailing blank cells are omitted.
trimmed(row) ==
    LET full == {n \in DOMAIN row : row[n] # <<>>} IN
    IF full = {} THEN <<>> ELSE SubSeq(row, 1, Max(full))

sheet_of(header, records) ==
    <<header>> \o [n \in DOMAIN records |-> trimmed(written(header, records[n]))]

\* Two sheets that differ in the order of their columns, or by a column nobody
\* reads, answer every lookup and every verification alike
\* (integrations/sheets/rows.py:63-64).
ColumnsMayMove(header, plain, records, phones, answers) ==
    LET moved == sheet_of(header, records)
        still == sheet_of(plain, records)
    IN  /\ \A phone \in phones :
              lookup_customer_by_phone(moved, phone) = lookup_customer_by_phone(still, phone)
        /\ \A n \in DOMAIN records, answer \in answers :
              LET id == strip(records[n].customer_id) IN
              verify_customer(moved, id, answer) = verify_customer(still, id, answer)

usable(record) ==
    /\ \A column \in CUSTOMER_COLUMNS : strip(record[column]) # <<>>
    /\ normalize_phone(record.phone_number) # None

\* One malformed row hides no other customer: whoever has a usable row is found
\* by his number, himself or somebody above him with the same number, and is
\* told apart from a number that is not on the sheet
\* (integrations/sheets/rows.py:7-9).
BadRowHidesNobody(header, records, phones) ==
    \A phone \in phones :
        LET number == normalize_phone(phone)
            owners == {n \in DOMAIN records :
                          usable(records[n])
                          /\ normalize_phone(records[n].phone_number) = number}
            answer == lookup_customer_by_phone(sheet_of(header, records), phone)
        IN  number # None =>
                IF owners = {} THEN answer.outcome = "CUSTOMER_NOT_FOUND"
                ELSE /\ answer.outcome = "CUSTOMER_FOUND"
                     /\ answer.customer.customer_id = strip(records[Min(owners)].customer_id)

\* What a date is on the sheet, in a locale.
date_cell(locale, month, date) ==
    CASE locale = "iso" -> <<"iso", month, date>>
      [] locale = "day_first" -> <<"slash", date, month>>
      [] locale = "month_first" -> <<"slash", month, date>>

\* Of a customer's claims the one updated last is told, and one without a date
\* only if none has any (integrations/sheets/claims.py:111-117); as long as the
\* sheet does not write its dates month first.
LatestIsTold(header, locale, dates, owner) ==
    LET cell(d) == IF d = NoDate THEN <<>>
                   ELSE date_cell(locale, 1 + (d - 1) \div Days, 1 + ((d - 1) % Days))
        record(n) == [claim_id |-> <<n>>, customer_id |-> owner,
                      status |-> <<CHOOSE s \in ClaimStatus : TRUE>>,
                      required_documents |-> <<>>, last_updated |-> cell(dates[n])]
        answer == get_claim_for_customer(
                      sheet_of(header, [n \in DOMAIN dates |-> record(n)]), owner)
    IN  dates # <<>> /\ locale # "month_first" =>
            /\ answer.outcome = "CLAIM_FOUND"
            /\ \A n \in DOMAIN dates : dates[answer.claim.claim_id[1]] >= dates[n]

=============================================================================
