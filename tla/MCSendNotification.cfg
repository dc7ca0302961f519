\* Colors of up to four numbers, as the usage names them, and four further fields.
CONSTANTS
    Texts <- const_Texts
    Number <- const_Number
    Blank = ""
    None = "none"
    MaxColors = 4
    MaxFields = 4
SPECIFICATION RconSpec
INVARIANTS
    AnswerOK
    AsWritten
    ShiftIsCaught
