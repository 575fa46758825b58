---------------------------- MODULE MCHttpClient ----------------------------
\* HttpClient on small instances: what the cfg files give its CONSTANTS.
EXTENDS HttpClient, TLC

CONSTANTS w1, w2, page, admin, outside

\* The manifest lists every request to the page and reads of the admin area.
MCAuthorized == {<<"GET", page>>, <<"POST", page>>, <<"GET", admin>>}

Threads == Permutations(Workers)
=============================================================================
