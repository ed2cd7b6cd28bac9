SPECIFICATION Spec
CONSTANTS
    Alphabets = {
        {"2", "-", "*", "(", ")"},
        {"0", "2", "+", "-", "/"},
        {"2", "5", ".", "space", "-"},
        {"2", "+", "times", "arabic", "letter"},
        {"0", "-", "keyword", "("}}
    MaxLength = 7
INVARIANTS
    ParsesTheGrammar
    ExtractsTheLongest
    CalculableIsCalculated
CHECK_DEADLOCK FALSE
