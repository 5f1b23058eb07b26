\* Numbers of three or four digits, questions and entries over four words,
\* directories of three files over two words and a phrase, sheets of two customers
\* or three claims, a year of two months of three days.
CONSTANTS
    Digits = {"1", "5"}
    default_country_code <- MCCountryCode
    _MIN_DIGITS = 3
    _MAX_DIGITS = 4
    Space = space
    None = none
    ClaimStatus = {"APPROVED", "REJECTED"}
    Blank = blank
    Odd = odd
    Months = 2
    Days = 3
    _HIGH_CONFIDENCE = 60
    _MEDIUM_CONFIDENCE = 34
    NoEntry = no_entry
    REQUIRED_TOPIC_IDS = {"office_hours"}
    TextLength = 6
    Words = {w1, w2, w3, w4}
    Phrase = phrase
    FileWords = {w1, w2, phrase}
    MaxEntries = 3
    MaxCustomers = 2
    MaxClaims = 3
    MaxEvents = 4
    MaxDuration = 3
SPECIFICATION Spec
INVARIANTS
    PhoneSpelledAlike
    FaqFilesAreAnswered
    FaqBestAnswer
    RowsColumnsMayMove
    RowsBadRowHidesNobody
    ClaimsLatestIsTold
    StartsAsConfigured
    MetricsCountEverything
    
CHECK_DEADLOCK FALSE
