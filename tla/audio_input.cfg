SPECIFICATION FairSpec
CONSTANT
    N = 4
INVARIANTS
    InOrder
    WrittenUntorn
    NoStrandedMail
PROPERTY
    MailServed
