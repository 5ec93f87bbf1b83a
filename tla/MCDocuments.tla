---------------------------- MODULE MCDocuments -----------------------------
(***************************************************************************)
(* Documents for TLC: a document with everything, and those that differ    *)
(* from it in up to two fields, which may be missing, empty, of another    *)
(* value, of the wrong type or unknown.                                    *)
(***************************************************************************)
EXTENDS Documents

IngressOf(name, port) == [object |-> [serviceName |-> name, servicePort |-> port]]

\* The values that each field takes; the first is the usual one.
Choices ==
  [flavor |-> <<Str("r"), Zero, Int("1")>>,
   gpu |-> <<Bool(FALSE), Bool(TRUE), Zero, Str("true")>>,
   host |-> <<Str("example.com"), Zero, Str("-")>>,
   ingress |-> <<Zero, Str("proxy"), IngressOf(Str("proxy"), Int("8888")),
                 [object |-> [serviceName |-> Str("proxy")]], IngressOf(Str(""), Str("http")),
                 IngressOf(Int("1"), Str("http"))>>,
   packages |-> <<Zero, Array(<<>>), Array(<<Str("numpy")>>), Array(<<Str("pip=1.2")>>),
                  Array(<<Str("numpy"), Str("pip=1.2")>>), Array(<<Str("numpy=")>>),
                  Array(<<Int("1")>>), Str("numpy")>>,
   password |-> <<Zero, Str(""), Str("secret"), Bool(TRUE)>>,
   serviceAccountName |-> <<Zero, Str("sa")>>,
   tls |-> <<Zero, Str("acme"), Str("none"), Str("self-signed"), Str("false")>>,
   volume |-> <<Zero, Str("data")>>]

Packages == {<<"numpy">>, <<"pip", "1.2">>, <<"numpy", "">>}

Changes(fields) ==
  UNION {{[fields EXCEPT ![f] = Choices[f][i]] : i \in DOMAIN Choices[f]} : f \in DOMAIN Choices}

Usual == [f \in DOMAIN Choices |-> Choices[f][1]]

Specs == {Zero, Str("notebook")}
           \cup {Filled(fields, Present) : fields \in UNION {Changes(c) : c \in Changes(Usual)}}
=============================================================================
