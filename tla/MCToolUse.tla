------------------------------ MODULE MCToolUse ------------------------------
EXTENDS ToolUse

CONSTANTS x, y, z

ThreeNames == {x, y, z}
=============================================================================
