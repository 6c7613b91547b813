SPECIFICATION ClientSpec
CONSTANTS
    Mails <- MCMails
    _auth = TRUE
    Recipients = 2
    MaxMails = 3
    MaxLines = 2
    MaxPiece = 4
INVARIANTS
    ResultIsOfThisMail
    LeaksNeedAFailure
\* the last mail has been sent
CHECK_DEADLOCK FALSE
