-------------------------- MODULE DocumentsProofs ---------------------------
(***************************************************************************)
(* Proofs about Documents, for whatever documents users submit: what goes  *)
(* through the schema can be read, what the operator writes goes through   *)
(* it and is read back, and the resources it makes fit together.           *)
(***************************************************************************)
EXTENDS Documents, TLAPS

(* Values *)

\* A value that is there is not Zero.
LEMMA Nonzero ==
  /\ \A t : Str(t) # Zero
  /\ \A b : Bool(b) # Zero
  /\ \A n : Int(n) # Zero
  /\ \A elements : Array(elements) # Zero
  /\ \A f : [object |-> f] # Zero
<1>1. \A t : "string" \in DOMAIN Str(t)
  BY DEF Str
<1>2. \A b : "boolean" \in DOMAIN Bool(b)
  BY DEF Bool
<1>3. \A n : "integer" \in DOMAIN Int(n)
  BY DEF Int
<1>4. \A elements : "array" \in DOMAIN Array(elements)
  BY DEF Array
<1>5. \A f : "object" \in DOMAIN [object |-> f]
  OBVIOUS
<1>6. DOMAIN Zero = {"zero"}
  BY DEF Zero
<1> QED BY <1>1, <1>2, <1>3, <1>4, <1>5, <1>6

\* The object that a document's fields make has those that are there.
LEMMA FilledFields ==
  ASSUME NEW fields
  PROVE  LET v == Filled(fields, Present) IN
         /\ "object" \in DOMAIN v
         /\ DOMAIN v.object = {f \in DOMAIN fields : fields[f] # Zero}
         /\ \A f \in DOMAIN fields : Field(v, f) = fields[f]
         /\ \A f \in DOMAIN v.object : v.object[f] = fields[f]
<1> DEFINE v == Filled(fields, Present)
           kept == {f \in DOMAIN fields : fields[f] # Zero}
<1>1. v = [object |-> [f \in kept |-> fields[f]]]
  BY DEF Filled, Present
<1>2. v.object = [f \in kept |-> fields[f]] /\ "object" \in DOMAIN v
  BY <1>1
<1>3. DOMAIN v.object = kept /\ \A f \in kept : v.object[f] = fields[f]
  BY <1>2
<1>4. \A f \in DOMAIN fields : Field(v, f) = fields[f]
  BY <1>3 DEF Field, Has
<1> QED BY <1>2, <1>3, <1>4
-----------------------------------------------------------------------------
(* What the schema of a notebook admits, level by level *)

\* What is in a list, each with the schema for elements.
LEMMA ArrayContents ==
  ASSUME NEW schema, schema.type = "array", NEW v
  PROVE  /\ \A i \in DOMAIN v.array :
              \E c \in Contents(schema, v) : c[1] = schema.items /\ c[2] = v.array[i]
         /\ \A c \in Contents(schema, v) :
              \E i \in DOMAIN v.array : c[1] = schema.items /\ c[2] = v.array[i]
<1>1. Contents(schema, v) = {<<schema.items, v.array[i]>> : i \in DOMAIN v.array}
  BY DEF Contents
<1>2. ASSUME NEW i \in DOMAIN v.array
      PROVE  \E c \in Contents(schema, v) : c[1] = schema.items /\ c[2] = v.array[i]
  <2>1. <<schema.items, v.array[i]>> \in Contents(schema, v)
    BY <1>1
  <2> WITNESS <<schema.items, v.array[i]>> \in Contents(schema, v)
  <2> QED OBVIOUS
<1>3. ASSUME NEW c \in Contents(schema, v)
      PROVE  \E i \in DOMAIN v.array : c[1] = schema.items /\ c[2] = v.array[i]
  <2>1. PICK i \in DOMAIN v.array : c = <<schema.items, v.array[i]>>
    BY <1>1
  <2> QED BY <2>1
<1> QED BY <1>2, <1>3

\* What is in an object, each with the schema for its field.
LEMMA ObjectContents ==
  ASSUME NEW schema, schema.type = "object", NEW v
  PROVE  /\ \A f \in DOMAIN v.object \cap DOMAIN schema.properties :
              \E c \in Contents(schema, v) :
                c[1] = schema.properties[f] /\ c[2] = v.object[f]
         /\ \A c \in Contents(schema, v) :
              \E f \in DOMAIN v.object \cap DOMAIN schema.properties :
                c[1] = schema.properties[f] /\ c[2] = v.object[f]
<1> DEFINE both == DOMAIN v.object \cap DOMAIN schema.properties
<1>1. Contents(schema, v) = {<<schema.properties[f], v.object[f]>> : f \in both}
  BY DEF Contents
<1> HIDE DEF both
<1>2. ASSUME NEW f \in both
      PROVE  \E c \in Contents(schema, v) : c[1] = schema.properties[f] /\ c[2] = v.object[f]
  <2>1. <<schema.properties[f], v.object[f]>> \in Contents(schema, v)
    BY <1>1
  <2> WITNESS <<schema.properties[f], v.object[f]>> \in Contents(schema, v)
  <2> QED OBVIOUS
<1>3. ASSUME NEW c \in Contents(schema, v)
      PROVE  \E f \in both : c[1] = schema.properties[f] /\ c[2] = v.object[f]
  <2>1. PICK f \in both : c = <<schema.properties[f], v.object[f]>>
    BY <1>1
  <2> QED BY <2>1
<1> QED BY <1>2, <1>3 DEF both

\* A package of the list is a text.
LEMMA ItemText ==
  ASSUME NEW v
  PROVE  AdmitsItem(API!String, v) <=> "string" \in DOMAIN v
BY DEF AdmitsItem, Admits, Fits, Contents, API!String

\* A text.
LEMMA FieldText ==
  ASSUME NEW v
  PROVE  AdmitsField(API!String, v) <=> "string" \in DOMAIN v
BY DEF AdmitsField, Admits, Fits, Contents, API!String

\* A boolean.
LEMMA FieldBoolean ==
  ASSUME NEW v
  PROVE  AdmitsField(API!Boolean, v) <=> "boolean" \in DOMAIN v
BY DEF AdmitsField, Admits, Fits, Contents, API!Boolean

\* The ingress, for which the file has no schema.
LEMMA FieldAny ==
  ASSUME NEW v
  PROVE  AdmitsField(API!Any, v)
BY DEF AdmitsField, Admits, Fits, Contents, API!Any

\* The list of packages.
LEMMA FieldList ==
  ASSUME NEW v
  PROVE  AdmitsField(API!ListOf(API!String), v) <=>
           /\ "array" \in DOMAIN v
           /\ \A i \in DOMAIN v.array : "string" \in DOMAIN v.array[i]
<1> DEFINE schema == API!ListOf(API!String)
<1>1. schema.type = "array" /\ schema.items = API!String
  BY DEF API!ListOf
<1> HIDE DEF schema
<1>2. Fits(schema, v) <=> "array" \in DOMAIN v
  BY <1>1 DEF Fits
<1>3. AdmitsField(schema, v) <=>
        Fits(schema, v) /\ \A i \in DOMAIN v.array : AdmitsItem(schema.items, v.array[i])
  BY <1>1, ArrayContents DEF AdmitsField, Admits
<1>4. AdmitsField(schema, v) <=>
        /\ "array" \in DOMAIN v
        /\ \A i \in DOMAIN v.array : "string" \in DOMAIN v.array[i]
  BY <1>1, <1>2, <1>3, ItemText
<1> QED BY <1>4 DEF schema

\* An object is admitted if its fields are, each by its own schema.
LEMMA PartAdmitted ==
  ASSUME NEW schema, schema.type = "object", NEW v
  PROVE  AdmitsPart(schema, v) <=>
           /\ Fits(schema, v)
           /\ \A f \in DOMAIN v.object \cap DOMAIN schema.properties :
                AdmitsField(schema.properties[f], v.object[f])
BY ObjectContents DEF AdmitsPart, Admits

TextFields == {"flavor", "host", "password", "serviceAccountName", "tls"}

\* The fields of a spec as the schema wants them; the ingress can be anything.
SpecAdmitted(v) ==
  /\ "object" \in DOMAIN v
  /\ \A f \in TextFields : Has(v, f) => "string" \in DOMAIN Field(v, f)
  /\ Has(v, "gpu") /\ "boolean" \in DOMAIN Field(v, "gpu")
  /\ Has(v, "packages") =>
       LET packages == Field(v, "packages") IN
       /\ "array" \in DOMAIN packages
       /\ \A i \in DOMAIN packages.array : "string" \in DOMAIN packages.array[i]

\* A spec: its fields are admitted, each by its own schema, and gpu is there.
LEMMA PartSpec ==
  ASSUME NEW v
  PROVE  AdmitsPart(API!NotebookSpec, v) <=> SpecAdmitted(v)
<1> DEFINE properties == API!NotebookSpec.properties
           Kept(f) == f \in DOMAIN v.object => AdmitsField(properties[f], v.object[f])
<1>1. /\ API!NotebookSpec.type = "object"
      /\ API!NotebookSpec.required = {"gpu"}
      /\ DOMAIN properties = TextFields \cup {"gpu", "ingress", "packages"}
      /\ \A f \in TextFields : properties[f] = API!String
      /\ properties["gpu"] = API!Boolean
      /\ properties["ingress"] = API!Any
      /\ properties["packages"] = API!ListOf(API!String)
  BY DEF API!NotebookSpec, API!Object, TextFields
<1>2. AdmitsPart(API!NotebookSpec, v) <=>
        /\ "object" \in DOMAIN v
        /\ "gpu" \in DOMAIN v.object
        /\ \A f \in DOMAIN properties : Kept(f)
  <2>1. Fits(API!NotebookSpec, v) <=> "object" \in DOMAIN v /\ "gpu" \in DOMAIN v.object
    BY <1>1 DEF Fits
  <2> QED BY <1>1, <2>1, PartAdmitted
<1>3. \A f \in TextFields : Kept(f) <=> (Has(v, f) => "string" \in DOMAIN Field(v, f))
  BY <1>1, FieldText DEF Has, Field
<1>4. Has(v, "gpu") => (Kept("gpu") <=> "boolean" \in DOMAIN Field(v, "gpu"))
  BY <1>1, FieldBoolean DEF Has, Field
<1>5. Kept("ingress")
  BY <1>1, FieldAny
<1>6. Kept("packages") <=>
        (Has(v, "packages") =>
           /\ "array" \in DOMAIN Field(v, "packages")
           /\ \A i \in DOMAIN Field(v, "packages").array :
                "string" \in DOMAIN Field(v, "packages").array[i])
  BY <1>1, FieldList DEF Has, Field
<1>7. (\A f \in DOMAIN properties : Kept(f)) <=>
        (\A f \in TextFields : Kept(f)) /\ Kept("gpu") /\ Kept("ingress") /\ Kept("packages")
  BY <1>1
<1> HIDE DEF properties, Kept
<1> QED BY <1>2, <1>3, <1>4, <1>5, <1>6, <1>7 DEF SpecAdmitted, Has

\* A status that the operator writes.
LEMMA PartStatus ==
  ASSUME NEW phase, phase # ""
  PROVE  AdmitsPart(API!NotebookStatus, Struct([phase |-> Str(phase)]))
<1> DEFINE fields == [phase |-> Str(phase)]
           v == Struct(fields)
<1>1. NotZero(fields["phase"])
  <2>1. Str(phase) # Zero
    BY Nonzero
  <2>2. Str(phase) # Str("")
    BY DEF Str
  <2>3. Str(phase) # Bool(FALSE) /\ Str(phase) # Array(<<>>)
    <3>1. "string" \in DOMAIN Str(phase)
      BY DEF Str
    <3>2. "string" \notin DOMAIN Bool(FALSE) /\ "string" \notin DOMAIN Array(<<>>)
      BY DEF Bool, Array
    <3> QED BY <3>1, <3>2
  <2> QED BY <2>1, <2>2, <2>3 DEF NotZero
<1>2. v = [object |-> [f \in {f \in {"phase"} : NotZero(fields[f])} |-> fields[f]]]
  BY DEF Struct, Filled
<1>3. "object" \in DOMAIN v /\ DOMAIN v.object = {"phase"} /\ v.object["phase"] = Str(phase)
  <2> DEFINE kept == {f \in {"phase"} : NotZero(fields[f])}
  <2>1. kept = {"phase"}
    BY <1>1
  <2>2. v = [object |-> [f \in kept |-> fields[f]]]
    BY <1>2
  <2>3. fields["phase"] = Str(phase)
    OBVIOUS
  <2> HIDE DEF kept, fields, v
  <2> QED BY <2>1, <2>2, <2>3
<1>4. /\ API!NotebookStatus.type = "object"
      /\ API!NotebookStatus.required = {"phase"}
      /\ API!NotebookStatus.properties["phase"] = API!String
  BY DEF API!NotebookStatus, API!Object
<1>5. AdmitsField(API!String, v.object["phase"])
  BY <1>3, FieldText DEF Str
<1> HIDE DEF v
<1>6. \A f \in DOMAIN v.object \cap DOMAIN API!NotebookStatus.properties :
        AdmitsField(API!NotebookStatus.properties[f], v.object[f])
  BY <1>3, <1>4, <1>5
<1>7. AdmitsPart(API!NotebookStatus, v)
  <2>1. Fits(API!NotebookStatus, v)
    BY <1>3, <1>4 DEF Fits
  <2> QED BY <1>4, <1>6, <2>1, PartAdmitted
<1> QED BY <1>7 DEF v

\* A document as it is stored.
IsDocument(d) == d = [spec |-> d.spec, status |-> d.status]

\* An update of the status.
LEMMA StatusWritten ==
  ASSUME NEW d, IsDocument(d), NEW status
  PROVE  [d EXCEPT !.status = status] = [spec |-> d.spec, status |-> status]
<1>1. DOMAIN d = {"spec", "status"}
  BY DEF IsDocument
<1>2. [d EXCEPT !.status = status]
        = [f \in {"spec", "status"} |-> IF f = "status" THEN status ELSE d[f]]
  BY <1>1
<1>3. [spec |-> d.spec, status |-> status]
        = [f \in {"spec", "status"} |-> IF f = "status" THEN status ELSE d[f]]
  BY <1>1
<1> QED BY <1>2, <1>3

\* A document is admitted if its spec and its status are.
LEMMA AdmittedParts ==
  ASSUME NEW d, IsDocument(d)
  PROVE  Admitted(d) <=>
           /\ d.spec # Zero => SpecAdmitted(d.spec)
           /\ d.status # Zero => AdmitsPart(API!NotebookStatus, d.status)
<1> DEFINE v == Filled(d, Present)
<1>1. /\ Validation.type = "object"
      /\ Validation.required = {}
      /\ DOMAIN Validation.properties = {"kind", "apiVersion", "spec", "status"}
      /\ Validation.properties["spec"] = API!NotebookSpec
      /\ Validation.properties["status"] = API!NotebookStatus
  BY DEF Validation, API!Notebook, API!Object
<1>2. DOMAIN d = {"spec", "status"}
  BY DEF IsDocument
<1>3. /\ "object" \in DOMAIN v
      /\ DOMAIN v.object = {f \in {"spec", "status"} : d[f] # Zero}
      /\ \A f \in DOMAIN v.object : v.object[f] = d[f]
  BY <1>2, FilledFields
<1> HIDE DEF v
<1>4. Admitted(d) <=>
        \A f \in DOMAIN v.object \cap DOMAIN Validation.properties :
          AdmitsPart(Validation.properties[f], v.object[f])
  <2>1. Fits(Validation, v)
    BY <1>1, <1>3 DEF Fits
  <2>2. Admitted(d) <=> Admits(Validation, v, AdmitsPart)
    BY DEF Admitted, v
  <2> QED BY <1>1, <2>1, <2>2, ObjectContents DEF Admits
<1> QED BY <1>1, <1>3, <1>4, PartSpec
-----------------------------------------------------------------------------
(* What the operator writes *)

\* A specification as Decode returns it, which after SetDefaults has every text.
IsSpec(s) ==
  /\ s = [flavor |-> s.flavor, gpu |-> s.gpu, host |-> s.host, ingress |-> s.ingress,
          packages |-> s.packages, password |-> s.password,
          serviceAccountName |-> s.serviceAccountName, tls |-> s.tls]
  /\ s.ingress # Nil =>
       s.ingress = [serviceName |-> s.ingress.serviceName, servicePort |-> s.ingress.servicePort]
  /\ s.packages = [i \in DOMAIN s.packages |-> s.packages[i]]
  /\ \A i \in DOMAIN s.packages : Cut(Word(s.packages[i])) = s.packages[i]

Complete(s) == Nil \notin {s.flavor, s.host, s.password, s.serviceAccountName, s.tls}

\* The document that a specification is written as.
LEMMA EncodedFields ==
  ASSUME NEW s
  PROVE  LET v == Encode(s) IN
         /\ "object" \in DOMAIN v
         /\ Has(v, "gpu")
         /\ \A f : Has(v, f) => Field(v, f) # Zero
         /\ Field(v, "flavor") = EncodeText(s.flavor)
         /\ Field(v, "gpu") = Bool(s.gpu)
         /\ Field(v, "host") = EncodeText(s.host)
         /\ Field(v, "ingress") = EncodeIngress(s.ingress)
         /\ Field(v, "packages") =
              Given(s.packages # <<>>,
                    Array([i \in DOMAIN s.packages |-> Str(Word(s.packages[i]))]))
         /\ Field(v, "password") = EncodeText(s.password)
         /\ Field(v, "serviceAccountName") = EncodeText(s.serviceAccountName)
         /\ Field(v, "tls") = EncodeText(s.tls)
<1> DEFINE words == Given(s.packages # <<>>,
                          Array([i \in DOMAIN s.packages |-> Str(Word(s.packages[i]))]))
           fields == [flavor |-> EncodeText(s.flavor), gpu |-> EncodeGPU(s.gpu),
                      host |-> EncodeText(s.host), ingress |-> EncodeIngress(s.ingress),
                      packages |-> words, password |-> EncodeText(s.password),
                      serviceAccountName |-> EncodeText(s.serviceAccountName),
                      tls |-> EncodeText(s.tls)]
           v == Filled(fields, Present)
<1>1. Encode(s) = v
  BY DEF Encode
<1>2. /\ DOMAIN fields = {"flavor", "gpu", "host", "ingress", "packages", "password",
                          "serviceAccountName", "tls"}
      /\ fields["flavor"] = EncodeText(s.flavor) /\ fields["gpu"] = Bool(s.gpu)
      /\ fields["host"] = EncodeText(s.host) /\ fields["ingress"] = EncodeIngress(s.ingress)
      /\ fields["packages"] = words /\ fields["password"] = EncodeText(s.password)
      /\ fields["serviceAccountName"] = EncodeText(s.serviceAccountName)
      /\ fields["tls"] = EncodeText(s.tls)
  <2> HIDE DEF words
  <2> QED BY DEF EncodeGPU
<1> HIDE DEF words, fields
<1>3. /\ "object" \in DOMAIN v
      /\ DOMAIN v.object = {f \in DOMAIN fields : fields[f] # Zero}
      /\ \A f \in DOMAIN fields : Field(v, f) = fields[f]
  BY FilledFields
<1> HIDE DEF v
<1>4. Has(v, "gpu")
  BY <1>2, <1>3, Nonzero DEF Has
<1>5. \A f : Has(v, f) => Field(v, f) # Zero
  BY <1>3 DEF Has
<1> QED BY <1>1, <1>2, <1>3, <1>4, <1>5 DEF words

\* A text that is written is a string or not there.
LEMMA EncodedText ==
  ASSUME NEW t
  PROVE  /\ EncodeText(t) # Zero => "string" \in DOMAIN EncodeText(t)
         /\ t # Nil => EncodeText(t) # Zero /\ EncodeText(t).string = t
BY Nonzero DEF EncodeText, Str

\* The schema admits every specification that the operator writes.
LEMMA EncodeAdmitted ==
  ASSUME NEW s
  PROVE  SpecAdmitted(Encode(s))
<1> DEFINE v == Encode(s)
           words == [i \in DOMAIN s.packages |-> Str(Word(s.packages[i]))]
<1>1. \A f \in TextFields : Has(v, f) => "string" \in DOMAIN Field(v, f)
  <2>1. \A f \in TextFields : \E t : Field(v, f) = EncodeText(t)
    BY EncodedFields DEF TextFields
  <2>2. \A f : Has(v, f) => Field(v, f) # Zero
    BY EncodedFields
  <2> HIDE DEF v
  <2> QED BY <2>1, <2>2, EncodedText
<1>2. Has(v, "gpu") /\ "boolean" \in DOMAIN Field(v, "gpu")
  <2>1. Has(v, "gpu") /\ Field(v, "gpu") = Bool(s.gpu)
    BY EncodedFields
  <2> QED BY <2>1 DEF Bool
<1>3. ASSUME Has(v, "packages")
      PROVE  /\ "array" \in DOMAIN Field(v, "packages")
             /\ \A i \in DOMAIN Field(v, "packages").array :
                  "string" \in DOMAIN Field(v, "packages").array[i]
  <2>1. Field(v, "packages") # Zero /\ Field(v, "packages") = Given(s.packages # <<>>, Array(words))
    BY <1>3, EncodedFields
  <2>2. Field(v, "packages") = Array(words)
    BY <2>1 DEF Given
  <2>3. Field(v, "packages").array = words /\ "array" \in DOMAIN Field(v, "packages")
    BY <2>2 DEF Array
  <2> QED BY <2>3 DEF Str
<1>4. "object" \in DOMAIN v
  BY EncodedFields
<1> HIDE DEF v
<1>5. SpecAdmitted(v)
  BY <1>1, <1>2, <1>3, <1>4 DEF SpecAdmitted
<1> QED BY <1>5 DEF v

\* A backend is read back as it was written, its port as an integer or a text.
LEMMA BackendReadBack ==
  ASSUME NEW b, b = [serviceName |-> b.serviceName, servicePort |-> b.servicePort], b # Nil
  PROVE  LET v == EncodeIngress(b) IN
         /\ v # Zero
         /\ "object" \in DOMAIN v
         /\ IsText(Field(v, "serviceName"))
         /\ \/ IsText(Field(v, "servicePort"))
            \/ "integer" \in DOMAIN Field(v, "servicePort")
         /\ DecodeIngress(v) = b
<1> DEFINE port == IF b.servicePort \in {"0", Port} THEN Int(b.servicePort) ELSE Str(b.servicePort)
           fields == [serviceName |-> Str(b.serviceName), servicePort |-> port]
           v == [object |-> fields]
<1>1. EncodeIngress(b) = v
  BY DEF EncodeIngress
<1>2. v # Zero /\ "object" \in DOMAIN v
  BY Nonzero
<1>3. Field(v, "serviceName") = Str(b.serviceName) /\ Field(v, "servicePort") = port
  BY DEF Field, Has
<1>4. "string" \in DOMAIN Str(b.serviceName) /\ Str(b.serviceName).string = b.serviceName
  BY DEF Str
<1>5. /\ port # Zero
      /\ "string" \in DOMAIN port \/ "integer" \in DOMAIN port
      /\ (IF "integer" \in DOMAIN port THEN port.integer ELSE port.string) = b.servicePort
  <2>1. CASE b.servicePort \in {"0", Port}
    <3>1. port = Int(b.servicePort)
      BY <2>1
    <3> QED BY <3>1, Nonzero DEF Int
  <2>2. CASE b.servicePort \notin {"0", Port}
    <3>1. port = Str(b.servicePort)
      BY <2>2
    <3> QED BY <3>1, Nonzero DEF Str
  <2> QED BY <2>1, <2>2
<1> HIDE DEF port, v
<1>6. DecodePort(port) = b.servicePort
  BY <1>5 DEF DecodePort, Value
<1>7. Value(Str(b.serviceName), "", LAMBDA name : name.string) = b.serviceName
  BY <1>4, Nonzero DEF Value
<1>8. DecodeIngress(v) = b
  BY <1>3, <1>6, <1>7 DEF DecodeIngress
<1> QED BY <1>1, <1>2, <1>3, <1>4, <1>5, <1>8 DEF IsText

\* What is written of a complete specification is read back as it was.
LEMMA ReadBack ==
  ASSUME NEW s, IsSpec(s), Complete(s), NEW status
  PROVE  LET d == [spec |-> Encode(s), status |-> status] IN
         /\ Decodes(d)
         /\ Decode(d) = s
<1> DEFINE v == Encode(s)
           d == [spec |-> v, status |-> status]
           words == [i \in DOMAIN s.packages |-> Str(Word(s.packages[i]))]
           backend == EncodeIngress(s.ingress)
<1>1. v # Zero /\ SpecOf(d) = v /\ "object" \in DOMAIN v
  <2>1. "object" \in DOMAIN v
    BY EncodedFields
  <2>2. "object" \notin DOMAIN Zero
    BY DEF Zero
  <2> HIDE DEF v
  <2> QED BY <2>1, <2>2 DEF SpecOf
<1>2. /\ \A f \in {"flavor", "host", "password", "serviceAccountName", "tls"} :
           Field(v, f) # Zero /\ "string" \in DOMAIN Field(v, f)
      /\ Field(v, "flavor").string = s.flavor
      /\ Field(v, "host").string = s.host
      /\ Field(v, "password").string = s.password
      /\ Field(v, "serviceAccountName").string = s.serviceAccountName
      /\ Field(v, "tls").string = s.tls
  <2>1. /\ Field(v, "flavor") = EncodeText(s.flavor)
        /\ Field(v, "host") = EncodeText(s.host)
        /\ Field(v, "password") = EncodeText(s.password)
        /\ Field(v, "serviceAccountName") = EncodeText(s.serviceAccountName)
        /\ Field(v, "tls") = EncodeText(s.tls)
    BY EncodedFields
  <2> HIDE DEF v
  <2> QED BY <2>1, EncodedText DEF Complete
<1>3. /\ Field(v, "gpu") # Zero /\ "boolean" \in DOMAIN Field(v, "gpu")
      /\ Field(v, "gpu").boolean = s.gpu
  <2>1. Field(v, "gpu") = Bool(s.gpu)
    BY EncodedFields
  <2> HIDE DEF v
  <2> QED BY <2>1, Nonzero DEF Bool
<1>4. DecodesIngress(d) /\ Value(Field(v, "ingress"), Nil, DecodeIngress) = s.ingress
  <2>1. Field(v, "ingress") = EncodeIngress(s.ingress)
    BY EncodedFields
  <2> HIDE DEF v
  <2>2. CASE s.ingress = Nil
    <3>1. Field(v, "ingress") = Zero
      BY <2>1, <2>2 DEF EncodeIngress
    <3> QED BY <1>1, <2>2, <3>1 DEF DecodesIngress, Value
  <2>3. CASE s.ingress # Nil
    <3>1. s.ingress = [serviceName |-> s.ingress.serviceName, servicePort |-> s.ingress.servicePort]
      BY <2>3 DEF IsSpec
    <3> QED BY <1>1, <2>1, <2>3, <3>1, BackendReadBack DEF DecodesIngress, Value
  <2> QED BY <2>2, <2>3
<1>5. /\ Has(v, "packages") => /\ "array" \in DOMAIN Field(v, "packages")
                               /\ \A i \in DOMAIN Field(v, "packages").array :
                                    IsText(Field(v, "packages").array[i])
      /\ LET read == Value(Field(v, "packages"), <<>>, LAMBDA w : w.array) IN
         [i \in DOMAIN read |-> Cut(read[i].string)] = s.packages
  <2> DEFINE read == Value(Field(v, "packages"), <<>>, LAMBDA w : w.array)
  <2>1. /\ Field(v, "packages") = Given(s.packages # <<>>, Array(words))
        /\ Has(v, "packages") => Field(v, "packages") # Zero
    BY EncodedFields
  <2> HIDE DEF v
  <2>2. CASE s.packages = <<>>
    <3>1. Field(v, "packages") = Zero
      BY <2>1, <2>2 DEF Given
    <3>2. read = <<>>
      BY <3>1 DEF Value
    <3>3. [i \in DOMAIN read |-> Cut(read[i].string)] = s.packages
      <4> HIDE DEF read
      <4> QED BY <2>2, <3>2
    <3> QED BY <2>1, <3>1, <3>3
  <2>3. CASE s.packages # <<>>
    <3>1. Field(v, "packages") = Array(words)
      BY <2>1, <2>3 DEF Given
    <3>2. Field(v, "packages") # Zero /\ "array" \in DOMAIN Field(v, "packages")
          /\ Field(v, "packages").array = words
      BY <3>1, Nonzero DEF Array
    <3>3. read = words
      BY <3>2 DEF Value
    <3>4. \A i \in DOMAIN words : words[i].string = Word(s.packages[i]) /\ IsText(words[i])
      BY DEF Str, IsText
    <3>5. [i \in DOMAIN words |-> Cut(words[i].string)] = s.packages
      BY <3>4 DEF IsSpec
    <3> HIDE DEF words, read
    <3>6. [i \in DOMAIN read |-> Cut(read[i].string)] = s.packages
      BY <3>3, <3>5
    <3> QED BY <3>2, <3>4, <3>6 DEF read
  <2> QED BY <2>2, <2>3
<1> HIDE DEF v
<1>6. DecodesFields(d)
  BY <1>1, <1>2, <1>3, <1>5 DEF DecodesFields, IsText
<1>7. Decode(d) = s
  <2>1. s = [flavor |-> s.flavor, gpu |-> s.gpu, host |-> s.host, ingress |-> s.ingress,
             packages |-> s.packages, password |-> s.password,
             serviceAccountName |-> s.serviceAccountName, tls |-> s.tls]
    BY DEF IsSpec
  <2> QED BY <1>1, <1>2, <1>3, <1>4, <1>5, <2>1 DEF Decode, Value
<1> QED BY <1>4, <1>6, <1>7 DEF Decodes, v
-----------------------------------------------------------------------------
(* What the operator reads *)

\* The client decodes what the schema admits.
LEMMA AdmittedFields ==
  ASSUME NEW d, d.spec # Zero => SpecAdmitted(d.spec)
  PROVE  DecodesFields(d)
<1>1. CASE d.spec = Zero
  <2>1. SpecOf(d) = Empty
    BY <1>1 DEF SpecOf
  <2>2. "object" \in DOMAIN Empty /\ \A f : ~Has(Empty, f)
    BY DEF Empty, Has
  <2> QED BY <2>1, <2>2 DEF DecodesFields, IsText, Field
<1>2. CASE d.spec # Zero
  <2>1. SpecOf(d) = d.spec /\ SpecAdmitted(d.spec)
    BY <1>2 DEF SpecOf
  <2>2. \A f \in {"flavor", "host", "password", "serviceAccountName", "tls"} :
          IsText(Field(d.spec, f))
    BY <2>1 DEF SpecAdmitted, TextFields, IsText, Field
  <2> QED BY <2>1, <2>2 DEF SpecAdmitted, DecodesFields, IsText
<1> QED BY <1>1, <1>2

\* Every word that users write is cut into a package that has it.
Cuttable(v) == Words(v) \subseteq {Word(package) : package \in UserPackages}

\* A word is cut into a package with the same word.
LEMMA CutWord ==
  ASSUME NEW package \in UserPackages
  PROVE  /\ Cut(Word(package)) \in UserPackages
         /\ Word(Cut(Word(package))) = Word(package)
BY DEF Cut

\* What is decoded of a stored document is a specification that can be written.
LEMMA Decoded ==
  ASSUME NEW d, d.spec # Zero => SpecAdmitted(d.spec), Cuttable(d.spec)
  PROVE  /\ IsSpec(Decode(d))
         /\ \A i \in DOMAIN Decode(d).packages :
              Word(Decode(d).packages[i]) \in {Word(package) : package \in UserPackages}
<1> DEFINE spec == SpecOf(d)
           TextOf(f) == Value(Field(spec, f), Nil, LAMBDA v : v.string)
           words == Value(Field(spec, "packages"), <<>>, LAMBDA v : v.array)
           packages == [i \in DOMAIN words |-> Cut(words[i].string)]
           ingress == Value(Field(spec, "ingress"), Nil, DecodeIngress)
           s == [flavor |-> TextOf("flavor"),
                 gpu |-> Value(Field(spec, "gpu"), FALSE, LAMBDA v : v.boolean),
                 host |-> TextOf("host"), ingress |-> ingress, packages |-> packages,
                 password |-> TextOf("password"),
                 serviceAccountName |-> TextOf("serviceAccountName"), tls |-> TextOf("tls")]
<1>1. Decode(d) = s
  BY DEF Decode
<1>2. \A i \in DOMAIN words :
        words[i].string \in {Word(package) : package \in UserPackages}
  <2>1. CASE Field(spec, "packages") = Zero
    <3>1. words = <<>>
      BY <2>1 DEF Value
    <3> HIDE DEF words
    <3> QED BY <3>1
  <2>2. CASE Field(spec, "packages") # Zero
    <3>1. spec = d.spec /\ d.spec # Zero
      BY <2>2 DEF SpecOf, Field, Has, Empty
    <3>2. /\ "object" \in DOMAIN d.spec
          /\ "array" \in DOMAIN Field(d.spec, "packages")
          /\ \A i \in DOMAIN Field(d.spec, "packages").array :
               "string" \in DOMAIN Field(d.spec, "packages").array[i]
      BY <2>2, <3>1 DEF SpecAdmitted, Field
    <3>3. words = Field(d.spec, "packages").array
      BY <2>2, <3>1 DEF Value
    <3>4. \A i \in DOMAIN words : words[i].string \in Words(d.spec)
      <4> HIDE DEF words
      <4> QED BY <3>2, <3>3 DEF Words
    <3> QED BY <3>4 DEF Cuttable
  <2> QED BY <2>1, <2>2
<1>3. \A i \in DOMAIN packages : /\ Word(packages[i]) = words[i].string
                                 /\ Cut(Word(packages[i])) = packages[i]
  <2> SUFFICES ASSUME NEW i \in DOMAIN words
               PROVE  /\ Word(Cut(words[i].string)) = words[i].string
                      /\ Cut(Word(Cut(words[i].string))) = Cut(words[i].string)
    OBVIOUS
  <2>1. PICK package \in UserPackages : words[i].string = Word(package)
    BY <1>2
  <2> QED BY <2>1, CutWord
<1>4. ingress # Nil =>
        ingress = [serviceName |-> ingress.serviceName, servicePort |-> ingress.servicePort]
  BY DEF Value, DecodeIngress
<1>5. \A i \in DOMAIN packages :
        Word(packages[i]) \in {Word(package) : package \in UserPackages}
  BY <1>2, <1>3
<1> HIDE DEF TextOf, words, ingress
<1>6. packages = [i \in DOMAIN packages |-> packages[i]]
  OBVIOUS
<1> HIDE DEF packages
<1>7. s.ingress = ingress /\ s.packages = packages
  OBVIOUS
<1>8. IsSpec(s)
  BY <1>3, <1>4, <1>6, <1>7 DEF IsSpec
<1> HIDE DEF s
<1> QED BY <1>1, <1>5, <1>7, <1>8

\* The defaults complete a specification.
LEMMA Completed ==
  ASSUME NEW s, IsSpec(s)
  PROVE  /\ IsSpec(SetDefaults(s)) /\ Complete(SetDefaults(s))
         /\ SetDefaults(s).packages = s.packages
<1> DEFINE t == SetDefaults(s)
<1>1. t = [flavor |-> OrDefault(s.flavor, DefaultFlavor), gpu |-> s.gpu,
           host |-> OrDefault(s.host, ""), ingress |-> s.ingress,
           packages |-> s.packages, password |-> OrDefault(s.password, ""),
           serviceAccountName |-> OrDefault(s.serviceAccountName, ""),
           tls |-> OrDefault(s.tls, SelfSigned)]
  <2>1. s = [flavor |-> s.flavor, gpu |-> s.gpu, host |-> s.host, ingress |-> s.ingress,
             packages |-> s.packages, password |-> s.password,
             serviceAccountName |-> s.serviceAccountName, tls |-> s.tls]
    BY DEF IsSpec
  <2>2. DOMAIN s = {"flavor", "gpu", "host", "ingress", "packages", "password",
                    "serviceAccountName", "tls"}
    BY <2>1
  <2> DEFINE Defaulted(f) == CASE f = "flavor" -> OrDefault(s.flavor, DefaultFlavor)
                               [] f = "host" -> OrDefault(s.host, "")
                               [] f = "password" -> OrDefault(s.password, "")
                               [] f = "serviceAccountName" -> OrDefault(s.serviceAccountName, "")
                               [] f = "tls" -> OrDefault(s.tls, SelfSigned)
                               [] OTHER -> s[f]
  <2>3. t = [f \in DOMAIN s |-> Defaulted(f)]
    <3>1. DOMAIN t = DOMAIN s
      BY DEF SetDefaults
    <3> QED BY <2>1, <3>1 DEF SetDefaults
  <2> QED BY <2>2, <2>3
<1> HIDE DEF t
<1>2. Nil \notin {DefaultFlavor, "", SelfSigned}
  BY TextAssumption
<1>3. /\ t.flavor = OrDefault(s.flavor, DefaultFlavor) /\ t.host = OrDefault(s.host, "")
      /\ t.password = OrDefault(s.password, "")
      /\ t.serviceAccountName = OrDefault(s.serviceAccountName, "")
      /\ t.tls = OrDefault(s.tls, SelfSigned)
      /\ t.ingress = s.ingress /\ t.packages = s.packages /\ t.gpu = s.gpu
  BY <1>1
<1>4. Complete(t)
  BY <1>2, <1>3 DEF Complete, OrDefault
<1>5. t = [flavor |-> t.flavor, gpu |-> t.gpu, host |-> t.host, ingress |-> t.ingress,
           packages |-> t.packages, password |-> t.password,
           serviceAccountName |-> t.serviceAccountName, tls |-> t.tls]
  BY <1>1, <1>3
<1>6. IsSpec(t)
  BY <1>3, <1>5 DEF IsSpec
<1> QED BY <1>3, <1>4, <1>6 DEF t

\* What is written of packages that can be cut is cut into them again.
LEMMA EncodedWords ==
  ASSUME NEW s,
         \A i \in DOMAIN s.packages :
           Word(s.packages[i]) \in {Word(package) : package \in UserPackages}
  PROVE  Cuttable(Encode(s))
<1> DEFINE v == Encode(s)
           words == [i \in DOMAIN s.packages |-> Str(Word(s.packages[i]))]
<1>1. Field(v, "packages") = Given(s.packages # <<>>, Array(words))
  BY EncodedFields
<1>2. CASE s.packages = <<>>
  <2>1. Field(v, "packages") = Zero
    BY <1>1, <1>2 DEF Given
  <2> HIDE DEF v
  <2>2. Words(v) = {}
    BY <2>1 DEF Words, Zero
  <2> QED BY <2>2 DEF Cuttable, v
<1>3. CASE s.packages # <<>>
  <2>1. Field(v, "packages").array = words
    BY <1>1, <1>3 DEF Given, Array
  <2>2. \A i \in DOMAIN words : words[i].string = Word(s.packages[i])
    BY DEF Str
  <2>3. \A i \in DOMAIN words :
          words[i].string \in {Word(package) : package \in UserPackages}
    BY <2>2
  <2> HIDE DEF v, words
  <2>4. Words(v) \subseteq {words[i].string : i \in DOMAIN words}
    BY <2>1 DEF Words
  <2> QED BY <2>3, <2>4 DEF Cuttable, v
<1> QED BY <1>2, <1>3
-----------------------------------------------------------------------------
(* The invariant: what is stored is admitted, and so are all the operator's  *)
(* writes.                                                                  *)

Sound(d) ==
  /\ IsDocument(d)
  /\ d.spec # Zero => SpecAdmitted(d.spec)
  /\ d.status # Zero => AdmitsPart(API!NotebookStatus, d.status)
  /\ Cuttable(d.spec)

Intact ==
  /\ ~refused
  /\ document # Zero => Sound(document)
  /\ edits \in Nat

\* What is sound the schema does not refuse.
LEMMA SoundAdmitted ==
  ASSUME NEW d, Sound(d)
  PROVE  Admitted(d)
BY AdmittedParts DEF Sound

\* A submission that the schema admits.
LEMMA SubmitSound ==
  ASSUME NEW spec \in UserSpecs, NEW status,
         status # Zero => AdmitsPart(API!NotebookStatus, status),
         Admitted([spec |-> spec, status |-> status])
  PROVE  Sound([spec |-> spec, status |-> status])
BY AdmittedParts, PackagesAssumption DEF Sound, IsDocument, Cuttable

\* A phase is written and nothing else.
LEMMA PhaseWritten ==
  ASSUME NEW phase, phase # "", Sound(document), ~refused, SetNotebookPhase(phase)
  PROVE  /\ ~refused' /\ Sound(document')
         /\ document'.spec = document.spec
<1> DEFINE d == [document EXCEPT !.status = Struct([phase |-> Str(phase)])]
<1>1. d = [spec |-> document.spec, status |-> Struct([phase |-> Str(phase)])]
  BY StatusWritten DEF Sound
<1>2. AdmitsPart(API!NotebookStatus, Struct([phase |-> Str(phase)]))
  BY PartStatus
<1>3. Sound(d) /\ d.spec = document.spec
  <2> DEFINE status == Struct([phase |-> Str(phase)])
  <2> HIDE DEF status
  <2> QED BY <1>1, <1>2 DEF Sound, IsDocument, status
<1>4. Admitted(d)
  BY <1>3, SoundAdmitted
<1> QED BY <1>3, <1>4 DEF SetNotebookPhase, Write

\* The defaults are written and nothing else, and read back.
LEMMA DefaultsWritten ==
  ASSUME document # Zero, Sound(document), ~refused, SyncDefaults
  PROVE  /\ ~refused' /\ Sound(document')
         /\ Decodes(document')
         /\ Decode(document') = Wanted
<1> DEFINE s == Decode(document)
           t == SetDefaults(s)
           d == [document EXCEPT !.spec = Encode(t)]
<1>1. d = [spec |-> Encode(t), status |-> document.status]
  BY DEF Sound, IsDocument
<1>2. /\ IsSpec(s)
      /\ \A i \in DOMAIN s.packages :
           Word(s.packages[i]) \in {Word(package) : package \in UserPackages}
  BY Decoded DEF Sound
<1>3. IsSpec(t) /\ Complete(t) /\ t.packages = s.packages
  BY <1>2, Completed
<1> HIDE DEF t
<1>4. SpecAdmitted(Encode(t)) /\ Cuttable(Encode(t))
  BY <1>2, <1>3, EncodeAdmitted, EncodedWords
<1>5. Decodes(d) /\ Decode(d) = t
  BY <1>1, <1>3, ReadBack
<1>6. Sound(d)
  BY <1>1, <1>4 DEF Sound, IsDocument
<1>7. Admitted(d)
  BY <1>6, SoundAdmitted
<1>8. document' = d /\ ~refused'
  BY <1>7 DEF SyncDefaults, Write, t
<1> QED BY <1>5, <1>6, <1>8 DEF Wanted, t

\* At the start there is nothing.
LEMMA IntactInit == Init => Intact
BY EditsAssumption DEF Init, Intact

\* What each step of the operator does to the document.
LEMMA SyncIntact ==
  ASSUME Intact, Sync
  PROVE  /\ Intact'
         /\ \/ document'.spec = document.spec
            \/ Decodes(document') /\ Decode(document') = Wanted
<1>1. document # Zero /\ Sound(document) /\ ~refused /\ edits \in Nat /\ edits' = edits
  BY DEF Intact, Sync, SyncInvalid, SyncDefaults, SyncReconcile, Synced
<1>2. CASE \E phase \in {"Failed", "Running"} : SetNotebookPhase(phase)
  <2>1. /\ ~refused' /\ Sound(document') /\ document'.spec = document.spec
    BY <1>1, <1>2, PhaseWritten
  <2> QED BY <1>1, <2>1 DEF Intact, Sound
<1>3. CASE SyncDefaults
  BY <1>1, <1>3, DefaultsWritten DEF Intact, Sound
<1> QED BY <1>2, <1>3 DEF Sync, SyncInvalid, SyncReconcile

\* The invariant is inductive.
LEMMA IntactNext ==
  ASSUME Intact, [Next]_vars
  PROVE  Intact'
<1>1. CASE Sync
  BY <1>1, SyncIntact
<1>2. ASSUME NEW spec \in UserSpecs, Submit(spec)
      PROVE  Intact'
  <2> DEFINE status == IF document = Zero THEN Zero ELSE document.status
             d == [spec |-> spec, status |-> status]
  <2>1. Admitted(d) => Sound(d)
    <3>1. status # Zero => AdmitsPart(API!NotebookStatus, status)
      BY DEF Intact, Sound
    <3> HIDE DEF status
    <3> QED BY <3>1, SubmitSound
  <2>2. /\ edits > 0 /\ edits' = edits - 1
        /\ document' = IF Admitted(d) THEN d ELSE document
        /\ UNCHANGED refused
    BY <1>2 DEF Submit
  <2> HIDE DEF d
  <2> QED BY <2>1, <2>2 DEF Intact, Sound
<1>3. CASE UNCHANGED vars
  BY <1>3 DEF vars, Intact, Sound
<1> QED BY <1>1, <1>2, <1>3 DEF Next
-----------------------------------------------------------------------------
(* Theorems about the documents *)

\* It is an invariant.
LEMMA AlwaysIntact == Spec => []Intact
BY IntactInit, IntactNext, PTL DEF Spec

\* Whatever documents users submit, the client can decode, but for the ingress,
\* those that the schema of createCRD lets through.
THEOREM DecodesAdmitted == Spec => []AdmittedDecodes
<1>1. Intact => AdmittedDecodes
  BY AdmittedFields DEF Intact, Sound, AdmittedDecodes
<1> QED BY <1>1, AlwaysIntact, PTL

\* The schema refuses nothing that sync and setNotebookPhase write, whatever
\* document they started from.
THEOREM NothingRefused == Spec => []WritesAdmitted
<1>1. Intact => WritesAdmitted
  BY DEF Intact, WritesAdmitted
<1> QED BY <1>1, AlwaysIntact, PTL

\* What the operator has written it reads back as it meant it: the defaults go
\* through the encoding and the decoding of every field, and a phase leaves the
\* specification alone.
THEOREM WritesKept == Spec => WritesReadBack
<1> DEFINE Kept == document' # document /\ edits' = edits =>
                     /\ Decodes(document')
                     /\ Decode(document') \in {Decode(document), Wanted}
<1>1. Intact /\ [Next]_vars => [Kept]_vars
  <2> SUFFICES ASSUME Intact, Next, document' # document, edits' = edits
               PROVE  /\ Decodes(document')
                      /\ Decode(document') \in {Decode(document), Wanted}
    OBVIOUS
  <2>1. Sync
    <3>1. ASSUME NEW spec \in UserSpecs, Submit(spec)
          PROVE  FALSE
      <4>1. edits \in Nat /\ edits' = edits - 1
        BY <3>1 DEF Submit, Intact
      <4> QED BY <4>1
    <3> QED BY <3>1 DEF Next
  <2>2. CASE document'.spec = document.spec
    <3>1. SpecOf(document') = SpecOf(document)
      BY <2>2 DEF SpecOf
    <3>2. Decodes(document)
      BY <2>1 DEF Sync, SyncInvalid, SyncDefaults, SyncReconcile, Synced
    <3> QED BY <3>1, <3>2 DEF Decodes, DecodesFields, DecodesIngress, Decode
  <2>3. CASE Decodes(document') /\ Decode(document') = Wanted
    BY <2>3
  <2> QED BY <2>1, <2>2, <2>3, SyncIntact
<1>2. Spec => [][Kept]_vars
  BY <1>1, AlwaysIntact, PTL DEF Spec
<1> QED BY <1>2 DEF WritesReadBack
-----------------------------------------------------------------------------
(* The resources, made of a specification that can be any *)

\* The fields of a struct are those that are not zero.
LEMMA StructField ==
  ASSUME NEW fields, NEW f \in DOMAIN fields
  PROVE  LET v == Struct(fields) IN
         /\ NotZero(fields[f]) => v.object[f] = fields[f] /\ Field(v, f) = fields[f]
         /\ ~NotZero(fields[f]) => Field(v, f) = Zero
<1> DEFINE kept == {g \in DOMAIN fields : NotZero(fields[g])}
           v == Struct(fields)
<1>1. v.object = [g \in kept |-> fields[g]]
  BY DEF Struct, Filled
<1> HIDE DEF v
<1>2. NotZero(fields[f]) => Has(v, f) /\ v.object[f] = fields[f]
  BY <1>1 DEF Has
<1>3. ~NotZero(fields[f]) => ~Has(v, f)
  BY <1>1 DEF Has
<1> QED BY <1>2, <1>3 DEF Field, v

\* What is in a resource is not zero.
LEMMA Nonempty ==
  /\ \A t : t # "" => NotZero(Str(t))
  /\ \A n : NotZero(Int(n))
  /\ \A v : NotZero(Ptr(v))
  /\ \A f : NotZero(Map(f))
  /\ \A v : NotZero(Array(<<v>>))
  /\ \A fields : NotZero(Struct(fields))
<1>1. \A t : t # "" => NotZero(Str(t))
  <2> TAKE t
  <2>1. t # "" => Str(t) # Str("")
    BY DEF Str
  <2>2. DOMAIN Str(t) = {"string"} /\ DOMAIN Zero = {"zero"} /\ DOMAIN Bool(FALSE) = {"boolean"}
        /\ DOMAIN Array(<<>>) = {"array"}
    BY DEF Str, Zero, Bool, Array
  <2> QED BY <2>1, <2>2 DEF NotZero
<1>2. DOMAIN Str("") = {"string"} /\ DOMAIN Zero = {"zero"} /\ DOMAIN Bool(FALSE) = {"boolean"}
      /\ DOMAIN Array(<<>>) = {"array"}
  BY DEF Str, Zero, Bool, Array
<1>3. \A n : NotZero(Int(n))
  <2>1. \A n : DOMAIN Int(n) = {"integer"}
    BY DEF Int
  <2> QED BY <1>2, <2>1 DEF NotZero
<1>4. \A v : NotZero(Ptr(v))
  <2>1. \A v : DOMAIN Ptr(v) = {"ptr"}
    BY DEF Ptr
  <2> QED BY <1>2, <2>1 DEF NotZero
<1>5. \A f : NotZero(Map(f))
  <2>1. \A f : DOMAIN Map(f) = {"map"}
    BY DEF Map
  <2> QED BY <1>2, <2>1 DEF NotZero
<1>6. \A v : NotZero(Array(<<v>>))
  <2> TAKE v
  <2>1. DOMAIN Array(<<v>>) = {"array"} /\ Array(<<v>>).array = <<v>> /\ Array(<<>>).array = <<>>
    BY DEF Array
  <2>2. <<v>> # <<>>
    OBVIOUS
  <2> QED BY <1>2, <2>1, <2>2 DEF NotZero
<1>7. \A fields : NotZero(Struct(fields))
  <2>1. \A fields : DOMAIN Struct(fields) = {"object"}
    BY DEF Struct, Filled
  <2> QED BY <1>2, <2>1 DEF NotZero
<1> QED BY <1>1, <1>3, <1>4, <1>5, <1>6, <1>7

\* A list of one.
LEMMA OneElement ==
  ASSUME NEW v
  PROVE  Elements(Array(<<v>>)) = {v}
<1>1. Array(<<v>>) # Zero
  BY Nonzero
<1>2. Array(<<v>>).array = <<v>>
  BY DEF Array
<1>3. DOMAIN <<v>> = {1} /\ <<v>>[1] = v
  OBVIOUS
<1> QED BY <1>1, <1>2, <1>3 DEF Elements

Named == Str(resourceName(NotebookName))

\* Every resource is named after the notebook.
LEMMA MetadataName ==
  ASSUME NEW kind, NEW annotations
  PROVE  Metadata(NotebookName, kind, annotations).object["name"] = Named
<1>1. NotZero(Named)
  BY Nonempty, NameAssumption DEF Named
<1> QED BY <1>1, StructField DEF Metadata, Named

\* The service: its name, its selector, its one port.
LEMMA ServiceParts ==
  /\ NameOf(Service) = Named
  /\ Service.object["spec"].object["selector"] = Map(MatchLabels(NotebookName))
  /\ \E port : Ports = {port} /\ port.object["port"] = Int(Port)
<1> DEFINE metadata == Metadata(NotebookName, "",
              Map("service.alpha.kubernetes.io/tolerate-unready-endpoints" :> Str("true")))
           port == Struct([name |-> Str(PortName), port |-> Int(Port), protocol |-> Str("TCP")])
           spec == Struct([ports |-> Array(<<port>>), selector |-> Map(MatchLabels(NotebookName)),
                           type |-> Str("ClusterIP")])
<1>1. Service = Struct([metadata |-> metadata, spec |-> spec])
  BY DEF Service, CalculateService
<1>2. NotZero(metadata) /\ NotZero(spec)
  BY Nonempty DEF Metadata
<1>3. NotZero(Array(<<port>>)) /\ NotZero(Map(MatchLabels(NotebookName))) /\ NotZero(Int(Port))
  BY Nonempty
<1>4. port.object["port"] = Int(Port)
  BY <1>3, StructField
<1> HIDE DEF port
<1>5. /\ spec.object["ports"] = Array(<<port>>)
      /\ spec.object["selector"] = Map(MatchLabels(NotebookName))
  BY <1>3, StructField
<1>6. metadata.object["name"] = Named
  BY MetadataName
<1> HIDE DEF metadata, spec
<1>7. Service.object["metadata"] = metadata /\ Service.object["spec"] = spec
  BY <1>1, <1>2, StructField
<1> QED BY <1>4, <1>5, <1>6, <1>7, OneElement DEF NameOf, Ports

\* The secret: its name, and the keys it has for what the notebook asks.
LEMMA SecretParts ==
  ASSUME NEW s
  PROVE  LET keys == DOMAIN Secret(s).object["data"].map IN
         /\ NameOf(Secret(s)) = Named
         /\ ShouldHaveCerts(s) => {CertKey, KeyKey} \subseteq keys
         /\ IsSet(s.password) => PasswordKey \in keys
<1> DEFINE metadata == Metadata(NotebookName, "", Map(<<>>))
           certs == IF Certified(s) THEN CertKey :> Str("certificate") @@ KeyKey :> Str("key")
                    ELSE <<>>
           password == IF IsSet(s.password) THEN PasswordKey :> Str(s.password) ELSE <<>>
           data == Map(certs @@ password)
<1>1. Secret(s) = Struct([metadata |-> metadata, data |-> data])
  BY DEF Secret, CalculateSecret
<1>2. NotZero(metadata) /\ NotZero(data)
  BY Nonempty DEF Metadata
<1>3. metadata.object["name"] = Named
  BY MetadataName
<1>4. data.map = certs @@ password
  BY DEF Map
<1>5. DOMAIN (certs @@ password) = DOMAIN certs \cup DOMAIN password
  BY DEF @@
<1>6. ShouldHaveCerts(s) => DOMAIN certs = {CertKey, KeyKey}
  BY DEF Certified, @@, :>
<1>7. IsSet(s.password) => DOMAIN password = {PasswordKey}
  BY DEF :>
<1> HIDE DEF metadata, data, certs, password
<1>8. Secret(s).object["metadata"] = metadata /\ Secret(s).object["data"] = data
  BY <1>1, <1>2, StructField
<1> QED BY <1>3, <1>4, <1>5, <1>6, <1>7, <1>8 DEF NameOf

\* The StatefulSet around its template.
LEMMA StatefulSetParts ==
  ASSUME NEW s
  PROVE  LET spec == StatefulSet(s).object["spec"] IN
         /\ spec.object["template"] = PodTemplate(NotebookName, s)
         /\ spec.object["selector"].ptr.object["matchLabels"] = Map(MatchLabels(NotebookName))
         /\ spec.object["serviceName"] = Named
<1> DEFINE metadata == Metadata(NotebookName, "", Zero)
           labels == Map(MatchLabels(NotebookName))
           selector == Struct([matchLabels |-> labels])
           template == PodTemplate(NotebookName, s)
           spec == Struct([replicas |-> Ptr(Int("1")), selector |-> Ptr(selector),
                           serviceName |-> Named, template |-> template])
<1>1. StatefulSet(s) = Struct([metadata |-> metadata, spec |-> spec])
  BY DEF StatefulSet, CalculateStatefulSet, Named
<1>2. NotZero(spec) /\ NotZero(labels) /\ NotZero(Ptr(selector)) /\ NotZero(Named)
  BY Nonempty, NameAssumption DEF Named
<1>3. NotZero(template)
  BY Nonempty DEF PodTemplate
<1>4. selector.object["matchLabels"] = labels /\ Ptr(selector).ptr = selector
  BY <1>2, StructField DEF Ptr
<1> HIDE DEF selector, labels, template, metadata
<1>5. /\ spec.object["selector"] = Ptr(selector)
      /\ spec.object["serviceName"] = Named
      /\ spec.object["template"] = template
  BY <1>2, <1>3, StructField
<1> HIDE DEF spec
<1>6. StatefulSet(s).object["spec"] = spec
  BY <1>1, <1>2, StructField
<1> QED BY <1>4, <1>5, <1>6 DEF labels, template

\* The template: its labels, its one container, its volumes.
LEMMA TemplateParts ==
  ASSUME NEW s
  PROVE  LET template == StatefulSet(s).object["spec"].object["template"] IN
         /\ template.object["metadata"].object["labels"] = Map(MatchLabels(NotebookName))
         /\ Container(s) = NotebookContainer(NotebookName, s)
         /\ Field(Pod(s), "volumes") =
              Given(ShouldHaveCerts(s), Array(<<CertificateVolume(NotebookName)>>))
<1> DEFINE template == PodTemplate(NotebookName, s)
           labels == Map(MatchLabels(NotebookName))
           container == NotebookContainer(NotebookName, s)
           volumes == Given(ShouldHaveCerts(s), Array(<<CertificateVolume(NotebookName)>>))
           metadata == Struct([labels |-> labels])
           fields == PodFields(NotebookName, s)
           spec == Struct(fields)
<1>1. template = Struct([metadata |-> metadata, spec |-> spec])
  BY DEF PodTemplate
<1>2. NotZero(metadata) /\ NotZero(spec) /\ NotZero(labels) /\ NotZero(Array(<<container>>))
  BY Nonempty
<1>3. ~NotZero(volumes) => volumes = Zero
  BY Nonempty DEF Given
<1>4. metadata.object["labels"] = labels
  BY <1>2, StructField
<1> HIDE DEF metadata, labels, container, volumes
<1>5. /\ spec.object["containers"] = Array(<<container>>)
      /\ Field(spec, "volumes") = volumes
  <2>1. /\ {"containers", "volumes"} \subseteq DOMAIN fields
        /\ fields["containers"] = Array(<<container>>) /\ fields["volumes"] = volumes
    BY DEF PodFields, container, volumes
  <2> HIDE DEF fields
  <2> QED BY <1>2, <1>3, <2>1, StructField
<1> HIDE DEF spec, fields
<1>6. template.object["metadata"] = metadata /\ template.object["spec"] = spec
  BY <1>1, <1>2, StructField
<1> HIDE DEF template
<1>7. StatefulSet(s).object["spec"].object["template"] = template
  BY StatefulSetParts DEF template
<1>8. Pod(s) = spec
  BY <1>6, <1>7 DEF Pod
<1>9. Container(s) = container
  <2>1. Array(<<container>>).array[1] = container
    BY DEF Array
  <2> QED BY <1>5, <1>8, <2>1 DEF Container
<1> QED BY <1>4, <1>5, <1>6, <1>7, <1>8, <1>9 DEF labels, container, volumes

\* The container: its variable, its mount, its port.
LEMMA ContainerParts ==
  ASSUME NEW s
  PROVE  /\ Field(Container(s), "env") =
              Given(IsSet(s.password), Array(<<PasswordVariable(NotebookName)>>))
         /\ Field(Container(s), "volumeMounts") =
              Given(ShouldHaveCerts(s),
                Array(<<Struct([name |-> Str("tls"), readOnly |-> Bool(TRUE),
                                mountPath |-> Str(MountPath)])>>))
         /\ Container(s).object["ports"] =
              Array(<<Struct([name |-> Str(PortName), containerPort |-> Int(Port),
                              protocol |-> Str("TCP")])>>)
<1> DEFINE container == NotebookContainer(NotebookName, s)
           env == Given(IsSet(s.password), Array(<<PasswordVariable(NotebookName)>>))
           mounts == Given(ShouldHaveCerts(s),
                       Array(<<Struct([name |-> Str("tls"), readOnly |-> Bool(TRUE),
                                       mountPath |-> Str(MountPath)])>>))
           ports == Array(<<Struct([name |-> Str(PortName), containerPort |-> Int(Port),
                                    protocol |-> Str("TCP")])>>)
<1>1. NotZero(ports)
  BY Nonempty
<1>2. NotZero(env) \/ env = Zero
  BY Nonempty DEF Given
<1>3. NotZero(mounts) \/ mounts = Zero
  BY Nonempty DEF Given
<1> DEFINE fields == ContainerFields(NotebookName, s)
<1>4. container = Struct(fields)
  BY DEF NotebookContainer
<1>5. Container(s) = container
  BY TemplateParts
<1>6. ~NotZero(Zero)
  BY DEF NotZero
<1> HIDE DEF container, env, mounts, ports
<1>7. /\ {"env", "volumeMounts", "ports"} \subseteq DOMAIN fields
      /\ fields["env"] = env /\ fields["volumeMounts"] = mounts /\ fields["ports"] = ports
  BY DEF ContainerFields, env, mounts, ports
<1> HIDE DEF fields
<1>8. /\ Field(container, "env") = env
      /\ Field(container, "volumeMounts") = mounts
      /\ container.object["ports"] = ports
  BY <1>1, <1>2, <1>3, <1>4, <1>6, <1>7, StructField
<1> QED BY <1>5, <1>8 DEF env, mounts, ports

\* A field of a struct, and one of the struct that it embeds.
LEMMA PartOf ==
  ASSUME NEW v, NEW field
  PROVE  /\ ~Has(v, "inline") => Part(v, field) = v.object[field]
         /\ Has(v, "inline") /\ field # "inline" /\ Has(v, field) =>
              Part(v, field) = v.object[field]
         /\ Has(v, "inline") /\ ~Has(v, field) /\ Has(v.object["inline"], field) =>
              Part(v, field) = v.object["inline"].object[field]
<1> DEFINE own == [f \in DOMAIN v.object \ {"inline"} |-> v.object[f]]
           embedded == v.object["inline"].object
           both == own @@ embedded
<1>1. ~Has(v, "inline") => Fields(v) = v.object
  BY DEF Fields
<1>2. Has(v, "inline") => Fields(v) = both
  BY DEF Fields
<1>3. \A f \in DOMAIN v.object \ {"inline"} : both[f] = v.object[f]
  BY DEF @@
<1>4. \A f \in DOMAIN embedded : f \notin DOMAIN v.object => both[f] = embedded[f]
  BY DEF @@
<1> HIDE DEF both
<1> QED BY <1>1, <1>2, <1>3, <1>4 DEF Part, Has

\* The variable refers to the secret, and to the password in it.
LEMMA VariableParts ==
  LET selector == PasswordVariable(NotebookName).object["valueFrom"].ptr
                    .object["secretKeyRef"].ptr
  IN /\ Part(selector, "name") = Named
     /\ Part(selector, "key").string = PasswordKey
<1> DEFINE reference == Struct([name |-> Named])
           fields == [inline |-> reference, key |-> Str(PasswordKey)]
           selector == Struct(fields)
           source == Struct([secretKeyRef |-> Ptr(selector)])
           variable == Struct([name |-> Str("PASSWORD"), valueFrom |-> Ptr(source)])
<1>1. PasswordVariable(NotebookName) = variable
  BY DEF PasswordVariable, Named
<1>2. NotZero(reference) /\ NotZero(Str(PasswordKey)) /\ NotZero(Named)
  BY Nonempty, NameAssumption DEF PasswordKey, Named
<1>3. \A v : NotZero(Ptr(v)) /\ Ptr(v).ptr = v
  BY Nonempty DEF Ptr
<1>4. variable.object["valueFrom"] = Ptr(source)
  BY <1>3, StructField
<1>5. source.object["secretKeyRef"] = Ptr(selector)
  BY <1>3, StructField
<1>6. Has(reference, "name") /\ reference.object["name"] = Named
  BY <1>2 DEF Struct, Filled, Has
<1> HIDE DEF reference
<1>7. /\ Has(selector, "inline") /\ selector.object["inline"] = reference
      /\ Has(selector, "key") /\ selector.object["key"] = Str(PasswordKey)
      /\ ~Has(selector, "name")
  <2>1. selector.object = [f \in {f \in DOMAIN fields : NotZero(fields[f])} |-> fields[f]]
    BY DEF Struct, Filled
  <2>2. DOMAIN fields = {"inline", "key"} /\ fields["inline"] = reference
        /\ fields["key"] = Str(PasswordKey)
    OBVIOUS
  <2> HIDE DEF selector, fields
  <2> QED BY <1>2, <2>1, <2>2 DEF Has
<1> HIDE DEF selector, source, variable
<1>8. Part(selector, "name") = Named /\ Part(selector, "key") = Str(PasswordKey)
  BY <1>6, <1>7, PartOf
<1>9. PasswordVariable(NotebookName).object["valueFrom"].ptr.object["secretKeyRef"].ptr = selector
  BY <1>1, <1>3, <1>4, <1>5
<1> QED BY <1>8, <1>9 DEF Str

\* The secret has the password that the container's variable takes from it.
LEMMA VariablesAlwaysFit ==
  ASSUME NEW s
  PROVE  VariablesFit(s)
<1> DEFINE variable == PasswordVariable(NotebookName)
<1>1. CASE IsSet(s.password)
  <2>1. Elements(Field(Container(s), "env")) = {variable}
    BY <1>1, ContainerParts, OneElement DEF Given
  <2>2. ShouldExist("Secret", [spec |-> s, deleting |-> FALSE])
    BY <1>1 DEF ShouldExist
  <2>3. NameOf(Secret(s)) = Named /\ PasswordKey \in DOMAIN Secret(s).object["data"].map
    BY <1>1, SecretParts
  <2> QED BY <2>1, <2>2, <2>3, VariableParts DEF VariablesFit, InSecret
<1>2. CASE ~IsSet(s.password)
  BY <1>2, ContainerParts DEF Given, VariablesFit, Elements
<1> QED BY <1>1, <1>2

\* The volume refers to the secret, and to the certificate and the key in it.
LEMMA VolumeParts ==
  LET volume == CertificateVolume(NotebookName)
      source == Part(volume, "secret").ptr
  IN /\ volume.object["name"] = Str("tls")
     /\ source.object["secretName"] = Named
     /\ \A item \in Elements(source.object["items"]) :
          item.object["key"].string \in {CertKey, KeyKey}
<1> DEFINE cert == Struct([key |-> Str(CertKey), path |-> Str("cert")])
           key == Struct([key |-> Str(KeyKey), path |-> Str("key")])
           items == Array(<<cert, key>>)
           source == Struct([defaultMode |-> Ptr(Int("420")), items |-> items,
                             secretName |-> Named])
           reference == Struct([secret |-> Ptr(source)])
           fields == [name |-> Str("tls"), inline |-> reference]
           volume == Struct(fields)
<1>1. CertificateVolume(NotebookName) = volume
  BY DEF CertificateVolume, Named
<1>2. NotZero(Str(CertKey)) /\ NotZero(Str(KeyKey)) /\ NotZero(Str("tls")) /\ NotZero(Named)
  BY Nonempty, NameAssumption DEF CertKey, KeyKey, Named
<1>3. cert.object["key"] = Str(CertKey) /\ key.object["key"] = Str(KeyKey)
  BY <1>2, StructField
<1>4. NotZero(reference) /\ \A v : NotZero(Ptr(v)) /\ Ptr(v).ptr = v
  BY Nonempty DEF Ptr
<1> HIDE DEF cert, key
<1>5. NotZero(items) /\ Elements(items) = {cert, key}
  <2>1. items.array = <<cert, key>> /\ Array(<<>>).array = <<>>
    BY DEF Array
  <2>2. items # Zero
    BY Nonzero
  <2>3. items # Str("") /\ items # Bool(FALSE)
    <3>1. "array" \in DOMAIN items
      BY DEF Array
    <3>2. "array" \notin DOMAIN Str("") /\ "array" \notin DOMAIN Bool(FALSE)
      BY DEF Str, Bool
    <3> QED BY <3>1, <3>2
  <2>4. items # Array(<<>>)
    <3>1. <<cert, key>> # <<>>
      OBVIOUS
    <3> HIDE DEF items
    <3> QED BY <2>1, <3>1
  <2>5. DOMAIN <<cert, key>> = {1, 2} /\ <<cert, key>>[1] = cert /\ <<cert, key>>[2] = key
    OBVIOUS
  <2> HIDE DEF items
  <2> QED BY <2>1, <2>2, <2>3, <2>4, <2>5 DEF NotZero, Elements
<1> HIDE DEF items
<1>6. source.object["items"] = items /\ source.object["secretName"] = Named
  BY <1>2, <1>5, StructField
<1> HIDE DEF source
<1>7. Has(reference, "secret") /\ reference.object["secret"] = Ptr(source)
  BY <1>4 DEF Struct, Filled, Has
<1> HIDE DEF reference
<1>8. /\ Has(volume, "inline") /\ volume.object["inline"] = reference
      /\ volume.object["name"] = Str("tls")
      /\ ~Has(volume, "secret")
  <2>1. volume.object = [f \in {f \in DOMAIN fields : NotZero(fields[f])} |-> fields[f]]
    BY DEF Struct, Filled
  <2>2. DOMAIN fields = {"inline", "name"} /\ fields["inline"] = reference
        /\ fields["name"] = Str("tls")
    OBVIOUS
  <2> HIDE DEF volume, fields
  <2> QED BY <1>2, <1>4, <2>1, <2>2 DEF Has
<1> HIDE DEF volume
<1>9. Part(volume, "secret") = Ptr(source)
  BY <1>7, <1>8, PartOf
<1>10. Str(CertKey).string = CertKey /\ Str(KeyKey).string = KeyKey
  BY DEF Str
<1> QED BY <1>1, <1>3, <1>4, <1>5, <1>6, <1>8, <1>9, <1>10

\* The secret has the certificate and the key that the volume takes from it,
\* and what the container mounts is that volume.
LEMMA VolumesAlwaysFit ==
  ASSUME NEW s
  PROVE  VolumesFit(s)
<1> DEFINE volume == CertificateVolume(NotebookName)
           mount == Struct([name |-> Str("tls"), readOnly |-> Bool(TRUE),
                            mountPath |-> Str(MountPath)])
<1>1. CASE ShouldHaveCerts(s)
  <2>1. Elements(Field(Pod(s), "volumes")) = {volume}
    BY <1>1, TemplateParts, OneElement DEF Given
  <2>2. Elements(Field(Container(s), "volumeMounts")) = {mount}
    BY <1>1, ContainerParts, OneElement DEF Given
  <2>3. mount.object["name"] = Str("tls")
    <3>1. NotZero(Str("tls"))
      BY Nonempty
    <3> QED BY <3>1, StructField
  <2>4. ShouldExist("Secret", [spec |-> s, deleting |-> FALSE])
    BY <1>1 DEF ShouldExist
  <2>5. NameOf(Secret(s)) = Named /\ {CertKey, KeyKey} \subseteq DOMAIN Secret(s).object["data"].map
    BY <1>1, SecretParts
  <2> HIDE DEF mount
  <2> QED BY <2>1, <2>2, <2>3, <2>4, <2>5, VolumeParts DEF VolumesFit, InSecret
<1>2. CASE ~ShouldHaveCerts(s)
  BY <1>2, TemplateParts, ContainerParts DEF Given, VolumesFit, Elements
<1> QED BY <1>1, <1>2

\* Service and StatefulSet select the pod, and the service's port is open in it.
LEMMA SelectorsAlwaysFit ==
  ASSUME NEW s
  PROVE  SelectorsFit(s)
<1>1. SelectsPod(s, Map(MatchLabels(NotebookName)))
  BY TemplateParts DEF SelectsPod
<1>2. PICK port : Ports = {port} /\ port.object["port"] = Int(Port)
  BY ServiceParts
<1> DEFINE open == Struct([name |-> Str(PortName), containerPort |-> Int(Port),
                           protocol |-> Str("TCP")])
<1>3. Elements(Container(s).object["ports"]) = {open}
  BY ContainerParts, OneElement
<1>4. open.object["containerPort"] = Int(Port)
  <2>1. NotZero(Int(Port))
    BY Nonempty
  <2> QED BY <2>1, StructField
<1> HIDE DEF open
<1> QED BY <1>1, <1>2, <1>3, <1>4, ServiceParts, StatefulSetParts DEF SelectorsFit

\* The ingress leads to the service's port, and names the secret that the wait
\* for its certificate looks for.
LEMMA IngressAlwaysFits ==
  ASSUME NEW s
  PROVE  IngressFits(s)
<1> DEFINE name == NotebookName
           host == name \o "." \o s.host
           backend == Backend(name, s)
           destination == Struct([serviceName |-> Str(backend.serviceName),
                                  servicePort |-> Int(backend.servicePort)])
           path == Struct([path |-> Str("/"), backend |-> destination])
           paths == Struct([paths |-> Array(<<path>>)])
           reference == Struct([http |-> Ptr(paths)])
           fields == [host |-> Str(host), inline |-> reference]
           rule == Struct(fields)
           secretName == Given(s.tls = Acme, Str(IngressTLSSecretName(name)))
           tls == Struct([hosts |-> Array(<<Str(host)>>), secretName |-> secretName])
           rows == Given(ShouldHaveCerts(s), Array(<<tls>>))
           spec == Struct([rules |-> Array(<<rule>>), tls |-> rows])
<1>1. Ingress(s).object["spec"] = spec
  <2>1. \E metadata : Ingress(s) = Struct([metadata |-> metadata, spec |-> spec])
    BY DEF Ingress, CalculateIngress
  <2>2. NotZero(spec)
    BY Nonempty
  <2> HIDE DEF spec
  <2> QED BY <2>1, <2>2, StructField
<1>2. \A v : NotZero(Ptr(v)) /\ Ptr(v).ptr = v /\ NotZero(Array(<<v>>))
  BY Nonempty DEF Ptr
<1>3. NotZero(destination) /\ NotZero(reference)
  BY Nonempty
<1>4. ASSUME s.ingress = Nil
      PROVE  /\ destination.object["serviceName"] = Named
             /\ destination.object["servicePort"] = Int(Port)
  <2>1. Str(backend.serviceName) = Named /\ Int(backend.servicePort) = Int(Port)
    BY <1>4 DEF Backend, Named
  <2>2. NotZero(Named) /\ NotZero(Int(Port))
    BY Nonempty, NameAssumption DEF Named
  <2> HIDE DEF backend
  <2> QED BY <2>1, <2>2, StructField
<1> HIDE DEF destination
<1>5. path.object["backend"] = destination
  BY <1>3, StructField
<1> HIDE DEF path
<1>6. paths.object["paths"] = Array(<<path>>)
  BY <1>2, StructField
<1> HIDE DEF paths
<1>7. Has(reference, "http") /\ reference.object["http"] = Ptr(paths)
  BY <1>2 DEF Struct, Filled, Has
<1> HIDE DEF reference
<1>8. Has(rule, "inline") /\ rule.object["inline"] = reference /\ ~Has(rule, "http")
  <2>1. rule.object = [f \in {f \in DOMAIN fields : NotZero(fields[f])} |-> fields[f]]
    BY DEF Struct, Filled
  <2>2. DOMAIN fields = {"inline", "host"} /\ fields["inline"] = reference
    OBVIOUS
  <2> HIDE DEF rule, fields
  <2> QED BY <1>3, <2>1, <2>2 DEF Has
<1> HIDE DEF rule
<1>9. Part(rule, "http").ptr = paths
  BY <1>2, <1>7, <1>8, PartOf
<1>10. ASSUME s.tls = Acme
       PROVE  /\ rows = Array(<<tls>>)
              /\ Field(tls, "secretName") = Str(IngressTLSSecretName(name))
  <2>1. secretName = Str(IngressTLSSecretName(name)) /\ NotZero(secretName)
    BY <1>10, Nonempty, NameAssumption DEF Given
  <2> HIDE DEF secretName
  <2>2. Field(tls, "secretName") = secretName
    BY <2>1, StructField
  <2>3. rows = Array(<<tls>>)
    BY <1>10 DEF Given, ShouldHaveCerts, Acme, NoTLS
  <2> QED BY <2>1, <2>2, <2>3
<1> HIDE DEF tls
<1>11. spec.object["rules"] = Array(<<rule>>)
  BY <1>2, StructField
<1>12. s.tls = Acme => Field(spec, "tls") = Array(<<tls>>)
  <2>1. NotZero(rows) => Field(spec, "tls") = rows
    <3> HIDE DEF rows
    <3> QED BY StructField
  <2> HIDE DEF spec, rows
  <2> QED BY <1>2, <1>10, <2>1
<1> HIDE DEF spec
<1>13. PICK port : Ports = {port} /\ port.object["port"] = Int(Port)
  BY ServiceParts
<1>14. s.ingress = Nil =>
         \A r \in Elements(spec.object["rules"]) :
           \A p \in Elements(Part(r, "http").ptr.object["paths"]) :
             /\ p.object["backend"].object["serviceName"] = NameOf(Service)
             /\ \E q \in Ports : q.object["port"] = p.object["backend"].object["servicePort"]
  BY <1>4, <1>5, <1>6, <1>9, <1>11, <1>13, OneElement, ServiceParts
<1>15. s.tls = Acme =>
         \E t \in Elements(Field(spec, "tls")) :
           Field(t, "secretName") = Str(IngressTLSSecretName(name))
  BY <1>10, <1>12, OneElement
<1> QED BY <1>1, <1>14, <1>15 DEF IngressFits

\* The resources fit together for every specification, whether it was ever
\* validated or not: their names, keys, labels and ports come from functions that
\* do not know of each other.
THEOREM ResourcesAlwaysFit == Spec => []ResourcesFit
<1>1. ResourcesFit
  BY VariablesAlwaysFit, VolumesAlwaysFit, SelectorsAlwaysFit, IngressAlwaysFits DEF ResourcesFit
<1> QED BY <1>1, PTL
=============================================================================
