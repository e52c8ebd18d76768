\* One mail and one worker; nobody sends it again, nothing is interrupted.
CONSTANTS
    Mails = {m1}
    Workers = {w1}
    MaxAttempts = 3
    MaxResets = 0
    MaxMailInterrupts = 0
    NoMail = NoMail
SPECIFICATION MailSpec
CHECK_DEADLOCK FALSE
INVARIANTS
    FailedHasNoneLeft
