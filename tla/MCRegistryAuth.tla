--------------------------- MODULE MCRegistryAuth ---------------------------
EXTENDS RegistryAuth, TLC

Names == {"docker.io", "hub url", "index.docker.io", "reg", "reg url"}
Hosts == [k \in Names |-> CASE k = "hub url" -> "index.docker.io"
                              [] k = "reg url" -> "reg"
                              [] OTHER -> k]

File(as, st, hs, sc) ==
    [readable |-> TRUE, auths |-> [i \in DOMAIN as |-> [key |-> as[i], cred |-> Cred(as[i], "other", "file")]],
     store |-> st, helpers |-> hs, scalar |-> sc, sections |-> {"auths"}]
Torn == [File(<<>>, FALSE, {}, TRUE) EXCEPT !.readable = FALSE]

Nothing == [k \in Names |-> NoCred]
Holds(ks) == [k \in Names |-> IF k \in ks THEN Cred(k, "", "store") ELSE NoCred]
Fails == [k \in Names |-> Broken]

State(f, d, h) == [file |-> f, custom |-> File(<<"reg url">>, FALSE, {}, TRUE), default |-> d, helper |-> h]

\* No credentials, the old format, entries under several names, a store that has an entry,
\* helpers with and without one, a helper that fails, an entry that is no object.
Disks == {State(Torn, Nothing, Nothing),
          State(File(<<>>, FALSE, {}, FALSE), Nothing, Nothing),
          State([File(<<"docker.io">>, FALSE, {}, TRUE) EXCEPT !.readable = FALSE], Nothing, Nothing),
          State(File(<<"hub url", "reg url">>, FALSE, {}, TRUE), Nothing, Nothing),
          State(File(<<"reg url">>, TRUE, {}, TRUE), Holds({"hub url"}), Nothing),
          State(File(<<"docker.io">>, FALSE, {"reg"}, TRUE), Nothing, Holds({"reg"})),
          State(File(<<"reg">>, TRUE, {"hub url"}, FALSE), Nothing, Fails),
          State([File(<<"reg url", "reg">>, FALSE, {}, TRUE) EXCEPT !.auths[1].cred = Broken],
                Nothing, Nothing)}

\* As docker logout leaves it, and after docker login.
AfterLogout == {State(File(<<>>, FALSE, {}, FALSE), Nothing, Nothing),
                State(File(<<"hub url">>, FALSE, {}, FALSE), Nothing, Nothing)}

LoginWith(ks, s, r, p) == [op : {"login"}, key : ks, secret : {s}, reauth : {r}, path : {p}]
SomeLogins == LoginWith({"docker.io", "hub url", "reg"}, "new", FALSE, FALSE)
              \union LoginWith({"reg url"}, "new", TRUE, FALSE)
              \union LoginWith({"docker.io"}, "bad", TRUE, FALSE)
              \union LoginWith({"reg"}, "new", FALSE, TRUE)

Alike == Permutations(Thread)
=============================================================================
