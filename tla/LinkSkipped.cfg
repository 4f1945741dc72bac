SPECIFICATION LinkSpec
CONSTANTS
    module_list_count = 2
    Names = {"f"}
INVARIANT MissingSkipped
CHECK_DEADLOCK FALSE
