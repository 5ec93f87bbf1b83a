----------------------------- MODULE Documents ------------------------------
(***************************************************************************)
(* A notebook as a JSON document: what the schema of the custom resource   *)
(* definition admits, what the operator's client reads and writes, and the *)
(* pods that come of it.  A user submits documents; in between the         *)
(* operator syncs.  Requests succeed unless the schema refuses them;       *)
(* Controller has the rest.                                                *)
(*                                                                         *)
(* A document consists of its spec and its status: the schema says nothing *)
(* about metadata.  JSON is written like the Go values of Resources.       *)
(***************************************************************************)
EXTENDS Deep

CONSTANTS UserSpecs,    \* the specs of the documents that users submit
          UserPackages, \* the packages in them, as strings.Split cuts them
          NotebookName,
          MaxEdits      \* how often users submit a document

VARIABLES
  document, \* the stored spec and status, each Zero if it is missing;
            \* Zero for no document
  made,     \* the specification that the StatefulSet was made from, or Nil
  refused,  \* whether the schema has refused a document of the operator's
  edits     \* how often users may still submit one

vars == <<document, made, refused, edits>>

API == INSTANCE OpenAPI

\* The texts in a spec's list of packages.
Words(spec) ==
  IF "object" \in DOMAIN spec /\ "array" \in DOMAIN Field(spec, "packages")
  THEN LET packages == Field(spec, "packages").array IN
       {packages[i].string : i \in {i \in DOMAIN packages : "string" \in DOMAIN packages[i]}}
  ELSE {}

\* A notebook has a name, and those made of it have a prefix.
ASSUME NameAssumption ==
         "" \notin {NotebookName, resourceName(NotebookName), IngressTLSSecretName(NotebookName)}

ASSUME EditsAssumption == MaxEdits \in Nat

ASSUME PackagesAssumption ==
         \A spec \in UserSpecs : Words(spec) \subseteq {Word(package) : package \in UserPackages}

\* A list is a sequence.
IsList(v) ==
  "array" \in DOMAIN v => v.array \in Seq({v.array[i] : i \in DOMAIN v.array})

ASSUME ListsAssumption ==
         \A spec \in UserSpecs : "object" \in DOMAIN spec => IsList(Field(spec, "packages"))

\* Texts are in Text; the image of one flavor is not that of another.
ASSUME FlavorsAssumption ==
         /\ \A spec \in UserSpecs :
              "object" \in DOMAIN spec /\ "string" \in DOMAIN Field(spec, "flavor") =>
                Field(spec, "flavor").string \in Text
         /\ \A a, b \in Text : Image(a) = Image(b) => a = b

Init ==
  /\ document = Zero
  /\ made = Nil
  /\ refused = FALSE
  /\ edits = MaxEdits
-----------------------------------------------------------------------------
(* What a schema admits *)

\* What a schema asks of a value, apart from what is in it.
Fits(schema, v) ==
  \/ schema.type = "any"
  \/ /\ schema.type \in DOMAIN v
     /\ schema.type = "object" => schema.required \subseteq DOMAIN v.object

\* What is in the value, with the schemas for it.  What an object has beyond the
\* properties is not looked at, because crd-validation leaves out
\* additionalProperties.
Contents(schema, v) ==
  CASE schema.type = "array" -> {<<schema.items, v.array[i]>> : i \in DOMAIN v.array}
    [] schema.type = "map" -> {<<schema.values, v.map[k]>> : k \in DOMAIN v.map}
    [] schema.type = "object" ->
         {<<schema.properties[f], v.object[f]>> :
            f \in DOMAIN v.object \cap DOMAIN schema.properties}
    [] OTHER -> {}

\* What a schema admits; Inside says it of what is in the value.
Admits(schema, v, Inside(_, _)) ==
  Fits(schema, v) /\ \A c \in Contents(schema, v) : Inside(c[1], c[2])

\* A notebook has four levels: itself, its spec and status, their fields, and
\* what is in the list of packages.
AdmitsItem(schema, v) == Admits(schema, v, LAMBDA s, w : FALSE)
AdmitsField(schema, v) == Admits(schema, v, AdmitsItem)
AdmitsPart(schema, v) == Admits(schema, v, AdmitsField)

\* GetCustomResourceValidation: at the top nothing is required.
Validation == [API!Notebook EXCEPT !.required = {}]

Present(v) == v # Zero

Admitted(d) == Admits(Validation, Filled(d, Present), AdmitsPart)

\* A resource conforms to a schema: the API server admits it, and whatever is in
\* it is known to the schema.  A pointer is encoded like what it points to.  The
\* resources have up to nine levels.
Encoded(v) ==
  LET target == IF "ptr" \in DOMAIN v THEN v.ptr ELSE v IN
  IF "object" \in DOMAIN target THEN [object |-> Fields(target)] ELSE target

Known(schema, v) ==
  schema.type = "object" /\ "object" \in DOMAIN v =>
    DOMAIN v.object \subseteq DOMAIN schema.properties

Allows(schema, v, Inside(_, _)) ==
  Known(schema, Encoded(v)) /\ Admits(schema, Encoded(v), Inside)

Conforms1(schema, v) == Allows(schema, v, LAMBDA s, w : FALSE)
Conforms2(schema, v) == Allows(schema, v, Conforms1)
Conforms3(schema, v) == Allows(schema, v, Conforms2)
Conforms4(schema, v) == Allows(schema, v, Conforms3)
Conforms5(schema, v) == Allows(schema, v, Conforms4)
Conforms6(schema, v) == Allows(schema, v, Conforms5)
Conforms7(schema, v) == Allows(schema, v, Conforms6)
Conforms8(schema, v) == Allows(schema, v, Conforms7)
Conforms(schema, v) == Allows(schema, v, Conforms8)
-----------------------------------------------------------------------------
(* Decoding and encoding of a notebook *)

Value(v, default, Op(_)) == IF v = Zero THEN default ELSE Op(v)

SpecOf(d) == IF d.spec = Zero THEN Empty ELSE d.spec

\* Whether json.Unmarshal takes a document: all of it but the ingress, which
\* the schema leaves open, and the ingress.
IsText(v) == v = Zero \/ "string" \in DOMAIN v

DecodesFields(d) ==
  LET spec == SpecOf(d)
      packages == Field(spec, "packages")
  IN /\ "object" \in DOMAIN spec
     /\ \A f \in {"flavor", "host", "password", "serviceAccountName", "tls"} :
          IsText(Field(spec, f))
     /\ Has(spec, "gpu") => "boolean" \in DOMAIN Field(spec, "gpu")
     /\ Has(spec, "packages") => /\ "array" \in DOMAIN packages
                                 /\ \A i \in DOMAIN packages.array : IsText(packages.array[i])

DecodesIngress(d) ==
  LET ingress == Field(SpecOf(d), "ingress") IN
  \/ ingress = Zero
  \/ /\ "object" \in DOMAIN ingress
     /\ IsText(Field(ingress, "serviceName"))
     /\ \/ IsText(Field(ingress, "servicePort"))
        \/ "integer" \in DOMAIN Field(ingress, "servicePort")

Decodes(d) == DecodesFields(d) /\ DecodesIngress(d)

Cut(word) == CHOOSE package \in UserPackages : Word(package) = word

\* An IntOrString that is missing is the integer 0.
DecodePort(v) ==
  Value(v, "0", LAMBDA port : IF "integer" \in DOMAIN port THEN port.integer ELSE port.string)

DecodeIngress(v) ==
  [serviceName |-> Value(Field(v, "serviceName"), "", LAMBDA name : name.string),
   servicePort |-> DecodePort(Field(v, "servicePort"))]

Decode(d) ==
  LET spec == SpecOf(d)
      TextOf(f) == Value(Field(spec, f), Nil, LAMBDA v : v.string)
      words == Value(Field(spec, "packages"), <<>>, LAMBDA v : v.array)
  IN [flavor |-> TextOf("flavor"),
      gpu |-> Value(Field(spec, "gpu"), FALSE, LAMBDA v : v.boolean),
      host |-> TextOf("host"),
      ingress |-> Value(Field(spec, "ingress"), Nil, DecodeIngress),
      packages |-> [i \in DOMAIN words |-> Cut(words[i].string)],
      password |-> TextOf("password"),
      serviceAccountName |-> TextOf("serviceAccountName"),
      tls |-> TextOf("tls")]

Phase(d) == Value(d.status, "", LAMBDA status : status.object["phase"].string)

\* Mutants: a field is left out when it is empty, not only when it is nil;
\* and gpu like the others.
OmitEmpty(t) == IF t \in {Nil, ""} THEN Zero ELSE Str(t)
OmitGPU(b) == Given(b, Bool(b))

EncodeText(t) == IF t = Nil THEN Zero ELSE Str(t)
EncodeGPU(b) == Bool(b)

EncodeIngress(backend) ==
  IF backend = Nil THEN Zero
  ELSE [object |-> [serviceName |-> Str(backend.serviceName),
                    servicePort |-> IF backend.servicePort \in {"0", Port}
                                    THEN Int(backend.servicePort)
                                    ELSE Str(backend.servicePort)]]

Encode(s) ==
  Filled([flavor |-> EncodeText(s.flavor), gpu |-> EncodeGPU(s.gpu),
          host |-> EncodeText(s.host), ingress |-> EncodeIngress(s.ingress),
          packages |-> Given(s.packages # <<>>,
                             Array([i \in DOMAIN s.packages |-> Str(Word(s.packages[i]))])),
          password |-> EncodeText(s.password),
          serviceAccountName |-> EncodeText(s.serviceAccountName),
          tls |-> EncodeText(s.tls)],
         Present)
-----------------------------------------------------------------------------
(* The definition has the status subresource: an update of a notebook leaves *)
(* the status alone, and an update of the status everything else.           *)

Submit(spec) ==
  LET d == [spec |-> spec, status |-> IF document = Zero THEN Zero ELSE document.status] IN
  /\ edits > 0
  /\ edits' = edits - 1
  /\ document' = IF Admitted(d) THEN d ELSE document
  /\ UNCHANGED <<made, refused>>

\* A request of the operator's.
Write(d) ==
  IF Admitted(d) THEN document' = d /\ UNCHANGED refused
  ELSE refused' = TRUE /\ UNCHANGED document

SetNotebookPhase(phase) ==
  IF Phase(document) = phase THEN UNCHANGED <<document, refused>>
  ELSE Write([document EXCEPT !.status = Struct([phase |-> Str(phase)])])

Synced == document # Zero /\ Decodes(document)

SyncInvalid ==
  /\ UNCHANGED <<edits, made>>
  /\ Synced
  /\ ~Validate(Decode(document))
  /\ SetNotebookPhase("Failed")

SyncDefaults ==
  /\ UNCHANGED <<edits, made>>
  /\ Synced
  /\ LET s == Decode(document) IN
     /\ Validate(s)
     /\ SetDefaults(s) # s
     /\ Write([document EXCEPT !.spec = Encode(SetDefaults(s))])

\* CreateOrUpdateStatefulSet's comparison, for s and the stored template.
TemplatesEqual(s, stored) ==
  DeeplyEqual(PodTemplate(NotebookName, s),
              StoredTemplate(PodTemplate(NotebookName, stored)))

\* The StatefulSet is kept if nothing tells the templates apart.
SyncReconcile ==
  /\ UNCHANGED edits
  /\ Synced
  /\ LET s == Decode(document) IN
     /\ Validate(s)
     /\ SetDefaults(s) = s
     /\ made' = IF made # Nil /\ TemplatesEqual(s, made) THEN made ELSE s
  /\ SetNotebookPhase("Running")

Sync == SyncInvalid \/ SyncDefaults \/ SyncReconcile

Next == Sync \/ \E spec \in UserSpecs : Submit(spec)

Spec == Init /\ [][Next]_vars
-----------------------------------------------------------------------------
(* Properties *)

\* What the schema admits the client can decode, with the exception of the
\* ingress: a notebook that cannot be decoded would fail every list and watch
\* of all notebooks (createCRD with the schema of the generated file).
AdmittedDecodes == document # Zero => DecodesFields(document)

\* The schema never refuses what the operator itself writes, defaults and
\* phases, whatever a user left out (sync, setNotebookPhase).
WritesAdmitted == ~refused

\* The specification that the document stands for once it has its defaults.
Wanted == SetDefaults(Decode(document))
Servable == Synced /\ Validate(Wanted)

\* What the operator writes is read back as what it meant, the notebook as it
\* was or with all its defaults, so that the early return of sync does not
\* write defaults again and again (sync, setNotebookPhase).
WritesReadBack ==
  [][document' # document /\ edits' = edits =>
       /\ Decodes(document')
       /\ Decode(document') \in {Decode(document), Wanted}]_vars

\* The comparison of go-test/deep, down to its tenth level, on the templates in
\* full, finds what NotebookSpec says it finds, for any two specifications that
\* follow each other.  In particular, but for a GPU, what the API server adds to
\* a template is in it from the start, so that the pods are not torn down again
\* and again (CalculateStatefulSet, CreateOrUpdateStatefulSet).
ComparisonFindsEdits ==
  Servable /\ made # Nil =>
    (TemplatesEqual(Wanted, made) <=> SameTemplate(Template(Wanted), Stored(Template(made))))

\* Everything the operator creates conforms to the schema of its kind and lacks
\* nothing that is required, whether or not the lister returned the notebook's
\* kind (the Calculate functions, the owner reference of sync's copy).
ResourcesConform ==
  Servable => \A kind \in {"", "Notebook"} :
    LET sts == CalculateStatefulSet(NotebookName, kind, Wanted) IN
    /\ Conforms(API!Service, CalculateService(NotebookName, kind))
    /\ Conforms(API!Secret, CalculateSecret(NotebookName, kind, Wanted))
    /\ Conforms(API!ObjectMeta, sts.object["metadata"])
    /\ Conforms(API!LabelSelector, sts.object["spec"].object["selector"])
    /\ Conforms(API!PodTemplateSpec, sts.object["spec"].object["template"])
    /\ Conforms(API!ObjectMeta,
                CalculateIngress(NotebookName, kind, Wanted).object["metadata"])

\* The parts of the resources that refer to each other.
Service == CalculateService(NotebookName, "")
Secret(s) == CalculateSecret(NotebookName, "", s)
StatefulSet(s) == CalculateStatefulSet(NotebookName, "", s)
Ingress(s) == CalculateIngress(NotebookName, "", s)

Part(v, field) == Fields(v)[field]
Elements(v) == IF v = Zero THEN {} ELSE {v.array[i] : i \in DOMAIN v.array}
NameOf(v) == v.object["metadata"].object["name"]
Pod(s) == StatefulSet(s).object["spec"].object["template"].object["spec"]
Container(s) == Pod(s).object["containers"].array[1]
Ports == Elements(Service.object["spec"].object["ports"])

InSecret(s, name, key) ==
  /\ ShouldExist("Secret", [spec |-> s, deleting |-> FALSE])
  /\ name = NameOf(Secret(s))
  /\ key.string \in DOMAIN Secret(s).object["data"].map

SelectsPod(s, selector) ==
  LET labels == StatefulSet(s).object["spec"].object["template"]
                  .object["metadata"].object["labels"].map
  IN \A k \in DOMAIN selector.map : k \in DOMAIN labels /\ labels[k] = selector.map[k]

VariablesFit(s) ==
  \A variable \in Elements(Field(Container(s), "env")) :
    LET selector == variable.object["valueFrom"].ptr.object["secretKeyRef"].ptr IN
    InSecret(s, Part(selector, "name"), Part(selector, "key"))

VolumesFit(s) ==
  /\ \A volume \in Elements(Field(Pod(s), "volumes")) :
       LET source == Part(volume, "secret").ptr IN
       \A item \in Elements(source.object["items"]) :
         InSecret(s, source.object["secretName"], item.object["key"])
  /\ \A mount \in Elements(Field(Container(s), "volumeMounts")) :
       \E volume \in Elements(Field(Pod(s), "volumes")) :
         volume.object["name"] = mount.object["name"]

SelectorsFit(s) ==
  LET spec == StatefulSet(s).object["spec"] IN
  /\ SelectsPod(s, spec.object["selector"].ptr.object["matchLabels"])
  /\ SelectsPod(s, Service.object["spec"].object["selector"])
  /\ spec.object["serviceName"] = NameOf(Service)
  /\ \A port \in Ports : \E open \in Elements(Container(s).object["ports"]) :
       open.object["containerPort"] = port.object["port"]

IngressFits(s) ==
  LET spec == Ingress(s).object["spec"] IN
  /\ s.ingress = Nil =>
       \A rule \in Elements(spec.object["rules"]) :
         \A path \in Elements(Part(rule, "http").ptr.object["paths"]) :
           LET backend == path.object["backend"].object IN
           /\ backend["serviceName"] = NameOf(Service)
           /\ \E port \in Ports : port.object["port"] = backend["servicePort"]
  /\ s.tls = Acme =>
       \E tls \in Elements(Field(spec, "tls")) :
         Field(tls, "secretName") = Str(IngressTLSSecretName(NotebookName))

\* The resources fit together: what the pod takes from the secret is in it and
\* the secret exists; what it mounts is a volume; service and StatefulSet select
\* the pod, and the service's port is open there; the ingress leads to the
\* service unless it was given another backend; the secret that the wait for a
\* certificate looks for is the one the ingress names (the Calculate functions,
\* ShouldExist, WaitForIngressTLSSecret).
ResourcesFit ==
  Servable => /\ VariablesFit(Wanted)
              /\ VolumesFit(Wanted)
              /\ SelectorsFit(Wanted)
              /\ IsSet(Wanted.host) => IngressFits(Wanted)
=============================================================================
