---------------------------- MODULE MCMultiTarget ----------------------------
\* Target files for model checking MultiTarget: one that names a host twice,
\* one with a line that is not valid.
EXTENDS MultiTarget, TLC

MCFiles == {<<"a", "b", "a">>, <<"b", Invalid, "a">>}
=============================================================================
