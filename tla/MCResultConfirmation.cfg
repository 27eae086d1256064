SPECIFICATION ConfirmationSpec
CONSTANTS
 MaxSaves = 4
INVARIANT EditedResultConfirmedAgain
CHECK_DEADLOCK FALSE
