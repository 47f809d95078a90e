------------------------------- MODULE MCTurn -------------------------------
EXTENDS Turn

CONSTANTS a, b

MCItemTexts == {<<a>>, <<a, b>>}
MCTexts == {<<a>>, <<b>>, <<a, b>>}
MCErrorText == <<a>>
MCAnyTexts == {<<a>>}
=============================================================================
