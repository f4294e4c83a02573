\* Four model outputs to one stored ten-thousandth: ties included.
CONSTANTS
    Grain = 4
    \* Two decimals at most: a text of three is one too many.
    MaxDigits = 2
SPECIFICATION SweepInputs
INVARIANTS
    DisagreementIsConfined
    FiltersKeepQualifying
    
    DatabaseUrlKeepsItsParameters
