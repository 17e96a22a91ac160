\* platform/linux/input.cpp:790: what is uploaded is answered.
CONSTANTS
    All <- One
    Uploads = {1}
    Ids = {1}
    Devs = {d1}
    Buttons = {"back"}
    Limit = 4
    Nil = Nil
SPECIFICATION Spec
PROPERTY UploadsAreAnswered
CHECK_DEADLOCK FALSE
