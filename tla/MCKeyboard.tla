----------------------------- MODULE MCKeyboard -----------------------------
EXTENDS Keyboard, TLC

\* The key *, which types the same with and without shift, backspace, Enter
\* and Ctrl, which has no character.
Table == (55 :> "*") @@ (14 :> BS) @@ (28 :> NL) @@ (29 :> "none")

\* The keys of the tables, F1, which lies past them, shift and its release,
\* caps lock, the release of *, the prefix, and the arrows, which without the
\* prefix are keys of the keypad and lie past the tables as well.
ScanCodes == {55, 14, 28, 29, 59, 42, 170, 58, 183, 224, 72, 80}

Dollar == <<"$">>
Answers == {<<"!", NL>>}
=============================================================================
