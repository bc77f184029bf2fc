SPECIFICATION Spec
CONSTANTS
    Transaction <- Transactions
    Operation = {a, b}
    Cap = 2
    MaxCommands = 4
 
PROPERTIES WholeSteps 
CHECK_DEADLOCK FALSE
