---------------------------- MODULE NotebookSpec ----------------------------
(***************************************************************************)
(* The pure part of the operator: what a notebook's specification means.   *)
(* Validate and SetDefaults of the Notebook type, the predicates that say  *)
(* which resources a notebook has, the Calculate functions of k8sutil that *)
(* compute each resource, and the comparison of pod templates.             *)
(*                                                                         *)
(* A pointer that is nil is Nil.  A string is a member of Text.  A package *)
(* is the sequence of the parts that strings.Split(p, "=") cuts it into.   *)
(***************************************************************************)
EXTENDS Naturals, Sequences

CONSTANTS Nil,             \* a nil pointer, an absent key, an absent object
          Text,            \* the strings a specification is made of
          Hosts,           \* those that are DNS-1123 subdomains
          PackageNames,    \* those that match ^[a-zA-Z0-9-_]+$
          PackageVersions  \* those that match ^[a-zA-Z0-9.]+$

Acme == "acme"
SelfSigned == "self-signed"
NoTLS == "none"
DefaultFlavor == "minimal"

ASSUME TextAssumption ==
         /\ {"", Acme, SelfSigned, NoTLS, DefaultFlavor} \subseteq Text
         /\ Hosts \cup PackageNames \cup PackageVersions \subseteq Text \ {""}
         /\ Nil \notin Text

Optional(S) == S \cup {Nil}

\* The ingress backend; its port is the text of the IntOrString, which is
\* "0" and not "" when the port was never set.
Backends == [serviceName : Text \cup {"jupyter-notebook"},
             servicePort : Text \cup {"0", "8888"}]

NotebookSpecs == [flavor : Optional(Text),
                  gpu : BOOLEAN,
                  host : Optional(Text),
                  ingress : Optional(Backends),
                  packages : Seq(Seq(Text) \ {<<>>}),
                  password : Optional(Text),
                  serviceAccountName : Optional(Text),
                  tls : Optional(Text)]
-----------------------------------------------------------------------------
(* Notebook.Validate *)

ValidPackage(parts) ==
  /\ Len(parts) <= 2
  /\ parts[1] \in PackageNames
  /\ Len(parts) = 2 => parts[2] \in PackageVersions

Validate(s) ==
  /\ s.host # Nil => s.host \in Hosts
  /\ s.ingress # Nil => (s.ingress.serviceName = "" <=> s.ingress.servicePort = "")
  /\ \A i \in 1..Len(s.packages) : ValidPackage(s.packages[i])

(* Notebook.SetDefaults: the receiver as the call leaves it.  The one bit it *)
(* returns is ignored by its caller, which compares the specifications.     *)

OrDefault(value, default) == IF value = Nil THEN default ELSE value

SetDefaults(s) ==
  [s EXCEPT !.flavor = OrDefault(@, DefaultFlavor),
            !.host = OrDefault(@, ""),
            !.password = OrDefault(@, ""),
            !.serviceAccountName = OrDefault(@, ""),
            !.tls = OrDefault(@, SelfSigned)]
-----------------------------------------------------------------------------
(* Which resources a notebook has.  A notebook n has a specification and a *)
(* deletion timestamp, of which only the presence matters.                 *)

Kind == {"Service", "Secret", "StatefulSet", "Ingress"}

IsSet(value) == value # Nil /\ value # ""

ShouldHaveCerts(s) == s.tls # NoTLS

ShouldExist(kind, n) ==
  /\ ~n.deleting
  /\ kind = "Ingress" => IsSet(n.spec.host)
  /\ kind = "Secret" => IsSet(n.spec.password) \/ ShouldHaveCerts(n.spec)
-----------------------------------------------------------------------------
(* What each resource contains.  Labels, names and ports that depend on    *)
(* nothing but the notebook's name are left out.                           *)

ServiceContent == [port |-> "8888"]

\* Mutant: a backend that is missing stays missing.
NoBackend == Nil

DefaultBackend == [serviceName |-> "jupyter-notebook", servicePort |-> "8888"]

\* The rule's host is the notebook's name in front of s.host.
IngressContent(s) ==
  [host |-> s.host,
   backend |-> OrDefault(s.ingress, DefaultBackend),
   tls |-> IF ~ShouldHaveCerts(s) THEN "off"
           ELSE IF s.tls = Acme THEN "acme" ELSE "passthrough"]

SecretContent(s, cert) ==
  [cert |-> IF ShouldHaveCerts(s) THEN cert ELSE Nil,
   password |-> IF IsSet(s.password) THEN s.password ELSE Nil]

\* The pod template.  It names the secret and never holds the password.
\* A GPU limit is a Quantity, whose Format is DecimalExponent as computed.
Template(s) ==
  [flavor |-> s.flavor,
   gpu |-> IF s.gpu THEN "DecimalExponent" ELSE "off",
   packages |-> s.packages,
   password |-> IsSet(s.password),
   certs |-> ShouldHaveCerts(s),
   serviceAccountName |-> s.serviceAccountName]

\* What is read back of a template that was stored: parsing the quantity
\* "1" gives the Format DecimalSI, whatever it was formatted from.
Stored(template) ==
  [template EXCEPT !.gpu = IF @ = "off" THEN "off" ELSE "DecimalSI"]

\* Mutant: the comparison is inverted.
DifferentTemplate(a, b) == a # b

\* deep.Equal(a, b) = nil.  It stops at MaxDepth = 10; the words of the
\* postStart command are at depth 11, so of the packages it only sees the
\* number.  A Quantity has no Equal method, so its Format is compared.
SameTemplate(a, b) ==
  /\ [a EXCEPT !.packages = <<>>] = [b EXCEPT !.packages = <<>>]
  /\ Len(a.packages) = Len(b.packages)
=============================================================================
