------------------------------ MODULE MCMetaData ------------------------------
(* Two plugins below one directory, and three settings.  The directory of   *)
(* an account has two settings, so that one can be removed without it.      *)
EXTENDS MetaData

Account == <<"tel", "ctx", "a">>
Name    == Append(Account, "name")
Apn     == Append(Account, "apn")
Proxy   == <<"tel", "mms", "proxy">>

ThreeKeys == {Name, Apn, Proxy}
TwoRoots == <<<<"tel", "ctx">>, <<"tel", "mms">>>>
SpokenNodes == {{Account, Proxy}}
NamedNodes == {Name, Account, Proxy, <<"tel">>}
=============================================================================
