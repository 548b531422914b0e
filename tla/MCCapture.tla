------------------------------ MODULE MCCapture ------------------------------
EXTENDS CaptureDialog

\* 1, Tab, Enter, Escape, a key of no use, and what Option+digit sends.
MCKeys == {49, 9, 13, 27, 186, 255}

MCTaken == {[mods |-> {"MOD_CONTROL"}, key |-> 49]}

MCStoredTexts ==
    {<<>>, <<" ">>, <<"-">>, <<"strg">>, <<"1">>, <<"strg", "+", "1">>, <<"1", "-", "ctrl">>,
     <<"ctrl", "+", "1", "+", "2">>, <<"win", " ", "xyz">>,
     <<"umschalt", "+", "tab", " ", "strg">>, <<"ctrl", "+", "shift", "+", "tab">>}
==============================================================================
