--------------------------- MODULE ResourceProofs ---------------------------
(***************************************************************************)
(* Proofs about what becomes of the resources: a pod template goes through *)
(* the API server and is compared with the next one, and every resource is *)
(* looked at with the schema of its kind.                                  *)
(***************************************************************************)
EXTENDS DocumentsProofs

(* Values, and what the API server leaves as it is *)

\* An object is told by its fields.
LEMMA ObjectOf ==
  ASSUME NEW fields
  PROVE  LET v == Struct(fields) IN
         /\ DOMAIN v = {"object"}
         /\ v = [object |-> v.object]
         /\ DOMAIN v.object = {f \in DOMAIN fields : NotZero(fields[f])}
         /\ v.object = [f \in DOMAIN v.object |-> v.object[f]]
<1> DEFINE kept == {f \in DOMAIN fields : NotZero(fields[f])}
           v == Struct(fields)
<1>1. v = [object |-> [f \in kept |-> fields[f]]]
  BY DEF Struct, Filled
<1> HIDE DEF kept
<1>2. v.object = [f \in kept |-> fields[f]] /\ DOMAIN v = {"object"}
  BY <1>1
<1> HIDE DEF v
<1> QED BY <1>1, <1>2 DEF kept, v

\* A default that is not needed.
LEMMA DefaultKept ==
  ASSUME NEW fields, NEW defaults,
         \A f \in DOMAIN defaults : f \in DOMAIN fields /\ NotZero(fields[f])
  PROVE  Default(Struct(fields), defaults) = Struct(fields)
<1> DEFINE v == Struct(fields)
<1>1. /\ v = [object |-> v.object]
      /\ v.object = [f \in DOMAIN v.object |-> v.object[f]]
      /\ DOMAIN defaults \subseteq DOMAIN v.object
  BY ObjectOf
<1> HIDE DEF v
<1>2. v.object @@ defaults = v.object
  <2>1. DOMAIN v.object \cup DOMAIN defaults = DOMAIN v.object
    BY <1>1
  <2>2. v.object @@ defaults
          = [f \in DOMAIN v.object \cup DOMAIN defaults |->
               IF f \in DOMAIN v.object THEN v.object[f] ELSE defaults[f]]
    BY DEF @@
  <2>3. v.object @@ defaults = [f \in DOMAIN v.object |-> v.object[f]]
    BY <2>1, <2>2
  <2> QED BY <1>1, <2>3
<1> QED BY <1>1, <1>2 DEF Default, v

\* A field that is replaced by itself.
LEMMA FieldKept ==
  ASSUME NEW fields, NEW field, NEW new,
         Has(Struct(fields), field) => new = Struct(fields).object[field]
  PROVE  (IF Has(Struct(fields), field)
          THEN [Struct(fields) EXCEPT !.object[field] = new] ELSE Struct(fields)) = Struct(fields)
<1> DEFINE v == Struct(fields)
<1>1. /\ v = [object |-> v.object]
      /\ DOMAIN v = {"object"}
      /\ v.object = [f \in DOMAIN v.object |-> v.object[f]]
  BY ObjectOf
<1> HIDE DEF v
<1>2. ASSUME Has(v, field), new = v.object[field]
      PROVE  [v EXCEPT !.object[field] = new] = v
  <2>1. [v.object EXCEPT ![field] = new] = v.object
    BY <1>1, <1>2
  <2>2. [v EXCEPT !.object[field] = new] = [object |-> [v.object EXCEPT ![field] = new]]
    BY <1>1
  <2> QED BY <1>1, <2>1, <2>2
<1> QED BY <1>2 DEF v

\* A list of one, of which the element is replaced by itself.
LEMMA EachKept ==
  ASSUME NEW v
  PROVE  /\ DOMAIN Array(<<v>>).array = {1}
         /\ Array(<<v>>).array[1] = v
         /\ [array |-> [i \in DOMAIN Array(<<v>>).array |-> v]] = Array(<<v>>)
<1>1. Array(<<v>>).array = <<v>>
  BY DEF Array
<1>2. DOMAIN <<v>> = {1} /\ <<v>>[1] = v
  OBVIOUS
<1>3. <<v>> = [i \in {1} |-> v]
  OBVIOUS
<1> QED BY <1>1, <1>2, <1>3 DEF Array
-----------------------------------------------------------------------------
(* What the API server adds to a template is in it from the start. *)

\* The one port of the container.
OpenPort == Struct([name |-> Str(PortName), containerPort |-> Int(Port), protocol |-> Str("TCP")])

\* The fields of a container, some of which are never zero.
LEMMA ContainerFieldsOf ==
  ASSUME NEW name, NEW s
  PROVE  LET fields == ContainerFields(name, s) IN
         /\ DOMAIN fields =
              {"args", "image", "imagePullPolicy", "lifecycle", "name", "ports",
               "terminationMessagePath", "terminationMessagePolicy", "env", "volumeMounts",
               "resources"}
         /\ fields["ports"] = Array(<<OpenPort>>)
         /\ \A f \in {"imagePullPolicy", "terminationMessagePath", "terminationMessagePolicy",
                      "name", "ports"} : NotZero(fields[f])
<1> DEFINE fields == ContainerFields(name, s)
<1>1. /\ fields["ports"] = Array(<<OpenPort>>)
      /\ fields["imagePullPolicy"] = Str("Always")
      /\ fields["terminationMessagePath"] = Str("/dev/termination-log")
      /\ fields["terminationMessagePolicy"] = Str("File")
      /\ fields["name"] = Str("notebook")
  BY DEF ContainerFields, OpenPort, terminationMessagePath
<1>2. DOMAIN fields =
        {"args", "image", "imagePullPolicy", "lifecycle", "name", "ports",
         "terminationMessagePath", "terminationMessagePolicy", "env", "volumeMounts",
         "resources"}
  BY DEF ContainerFields
<1> HIDE DEF fields
<1> QED BY <1>1, <1>2, Nonempty DEF fields

\* The protocol of the port is given.
LEMMA PortKept == DefaultPort(OpenPort) = OpenPort
<1> DEFINE fields == [name |-> Str(PortName), containerPort |-> Int(Port), protocol |-> Str("TCP")]
           defaults == [protocol |-> Str("TCP")]
<1>1. DOMAIN defaults = {"protocol"}
  OBVIOUS
<1>2. "protocol" \in DOMAIN fields /\ NotZero(fields["protocol"])
  BY Nonempty
<1>3. OpenPort = Struct(fields) /\ DefaultPort(OpenPort) = Default(OpenPort, defaults)
  BY DEF OpenPort, DefaultPort
<1> HIDE DEF fields, defaults
<1> QED BY <1>1, <1>2, <1>3, DefaultKept

\* So are the container's pull policy and where its termination message goes.
LEMMA ContainerKept ==
  ASSUME NEW name, NEW s
  PROVE  DefaultContainer(NotebookContainer(name, s)) = NotebookContainer(name, s)
<1> DEFINE fields == ContainerFields(name, s)
           container == Struct(fields)
           defaults == [imagePullPolicy |-> Str("Always"),
                        terminationMessagePath |-> Str("/dev/termination-log"),
                        terminationMessagePolicy |-> Str("File")]
<1>1. NotebookContainer(name, s) = container
  BY DEF NotebookContainer
<1>2. DOMAIN defaults
        = {"imagePullPolicy", "terminationMessagePath", "terminationMessagePolicy"}
  OBVIOUS
<1> HIDE DEF defaults, fields
<1>3. Default(container, defaults) = container
  BY <1>2, ContainerFieldsOf, DefaultKept DEF fields
<1>4. DefaultContainer(container)
        = IF Has(container, "ports")
          THEN [container EXCEPT !.object["ports"] = Each(@, DefaultPort)] ELSE container
  BY <1>3 DEF DefaultContainer, At, defaults
<1>5. Each(Array(<<OpenPort>>), DefaultPort) = Array(<<OpenPort>>)
  <2> DEFINE ports == Array(<<OpenPort>>)
  <2>1. \A i \in DOMAIN ports.array : DefaultPort(ports.array[i]) = OpenPort
    BY PortKept, EachKept
  <2>2. [array |-> [i \in DOMAIN ports.array |-> OpenPort]] = ports
    BY EachKept
  <2> HIDE DEF ports
  <2>3. [i \in DOMAIN ports.array |-> DefaultPort(ports.array[i])]
          = [i \in DOMAIN ports.array |-> OpenPort]
    BY <2>1
  <2> QED BY <2>2, <2>3 DEF Each, ports
<1>6. container.object["ports"] = Array(<<OpenPort>>)
  BY ContainerFieldsOf, StructField DEF fields
<1> QED BY <1>1, <1>4, <1>5, <1>6, FieldKept

\* The mode of the files with the certificate is given.
LEMMA VolumeKept ==
  ASSUME NEW name
  PROVE  DefaultVolume(CertificateVolume(name)) = CertificateVolume(name)
<1> DEFINE cert == Struct([key |-> Str(CertKey), path |-> Str("cert")])
           key == Struct([key |-> Str(KeyKey), path |-> Str("key")])
           sourceFields == [defaultMode |-> Ptr(Int("420")), items |-> Array(<<cert, key>>),
                            secretName |-> Str(resourceName(name))]
           source == Struct(sourceFields)
           referenceFields == [secret |-> Ptr(source)]
           reference == Struct(referenceFields)
           volumeFields == [name |-> Str("tls"), inline |-> reference]
           volume == Struct(volumeFields)
           defaults == [defaultMode |-> Ptr(Int("420"))]
           WithMode(pointer) == Ptr(Default(pointer.ptr, defaults))
           NewSource(v) == At(v, "secret", WithMode)
<1>1. CertificateVolume(name) = volume
  BY DEF CertificateVolume
<1>2. DefaultVolume(volume) = IF Has(volume, "inline")
                              THEN [volume EXCEPT !.object["inline"] = NewSource(@)] ELSE volume
  BY DEF DefaultVolume, At
<1>3. DOMAIN defaults = {"defaultMode"} /\ "defaultMode" \in DOMAIN sourceFields
      /\ NotZero(sourceFields["defaultMode"])
  BY Nonempty
<1> HIDE DEF sourceFields, defaults
<1>4. Default(source, defaults) = source
  BY <1>3, DefaultKept
<1> HIDE DEF source
<1>5. WithMode(Ptr(source)) = Ptr(source)
  BY <1>4 DEF Ptr
<1>6. reference.object["secret"] = Ptr(source)
  BY Nonempty, StructField
<1> HIDE DEF referenceFields, WithMode
<1>7. NewSource(reference) = reference
  <2>1. NewSource(reference) = IF Has(reference, "secret")
                               THEN [reference EXCEPT !.object["secret"] = WithMode(@)]
                               ELSE reference
    BY DEF At
  <2> HIDE DEF NewSource
  <2> QED BY <1>5, <1>6, <2>1, FieldKept
<1>8. NotZero(reference)
  BY Nonempty
<1> HIDE DEF reference, NewSource
<1>9. volume.object["inline"] = reference
  BY <1>8, StructField
<1> HIDE DEF volumeFields
<1> QED BY <1>1, <1>2, <1>7, <1>9, FieldKept

\* Default of a list of one container, and of one volume.
LEMMA ListsKept ==
  ASSUME NEW name, NEW s
  PROVE  /\ LET containers == Array(<<NotebookContainer(name, s)>>) IN
            Each(containers, DefaultContainer) = containers
         /\ LET volumes == Array(<<CertificateVolume(name)>>) IN
            Each(volumes, DefaultVolume) = volumes
<1>1. ASSUME NEW v, DefaultContainer(v) = v
      PROVE  Each(Array(<<v>>), DefaultContainer) = Array(<<v>>)
  <2> DEFINE list == Array(<<v>>)
  <2>1. \A i \in DOMAIN list.array : DefaultContainer(list.array[i]) = v
    BY <1>1, EachKept
  <2>2. [array |-> [i \in DOMAIN list.array |-> v]] = list
    BY EachKept
  <2> HIDE DEF list
  <2>3. [i \in DOMAIN list.array |-> DefaultContainer(list.array[i])]
          = [i \in DOMAIN list.array |-> v]
    BY <2>1
  <2> QED BY <2>2, <2>3 DEF Each, list
<1>2. ASSUME NEW v, DefaultVolume(v) = v
      PROVE  Each(Array(<<v>>), DefaultVolume) = Array(<<v>>)
  <2> DEFINE list == Array(<<v>>)
  <2>1. \A i \in DOMAIN list.array : DefaultVolume(list.array[i]) = v
    BY <1>2, EachKept
  <2>2. [array |-> [i \in DOMAIN list.array |-> v]] = list
    BY EachKept
  <2> HIDE DEF list
  <2>3. [i \in DOMAIN list.array |-> DefaultVolume(list.array[i])]
          = [i \in DOMAIN list.array |-> v]
    BY <2>1
  <2> QED BY <2>2, <2>3 DEF Each, list
<1> QED BY <1>1, <1>2, ContainerKept, VolumeKept

\* The fields of a pod, some of which are never zero.
LEMMA PodFieldsOf ==
  ASSUME NEW name, NEW s
  PROVE  LET fields == PodFields(name, s) IN
         /\ DOMAIN fields =
              {"automountServiceAccountToken", "containers", "serviceAccount", "dnsPolicy",
               "restartPolicy", "schedulerName", "securityContext", "serviceAccountName",
               "terminationGracePeriodSeconds", "tolerations", "volumes"}
         /\ fields["containers"] = Array(<<NotebookContainer(name, s)>>)
         /\ fields["serviceAccount"] = Str(s.serviceAccountName)
         /\ fields["serviceAccountName"] = Str(s.serviceAccountName)
         /\ fields["volumes"] = Given(ShouldHaveCerts(s), Array(<<CertificateVolume(name)>>))
         /\ \A f \in {"restartPolicy", "dnsPolicy", "schedulerName", "securityContext",
                      "terminationGracePeriodSeconds", "containers"} : NotZero(fields[f])
<1> DEFINE fields == PodFields(name, s)
<1>1. /\ fields["containers"] = Array(<<NotebookContainer(name, s)>>)
      /\ fields["serviceAccount"] = Str(s.serviceAccountName)
      /\ fields["serviceAccountName"] = Str(s.serviceAccountName)
      /\ fields["volumes"] = Given(ShouldHaveCerts(s), Array(<<CertificateVolume(name)>>))
      /\ fields["restartPolicy"] = Str("Always")
      /\ fields["dnsPolicy"] = Str("ClusterFirst")
      /\ fields["schedulerName"] = Str("default-scheduler")
      /\ fields["securityContext"] = Ptr(Empty)
      /\ fields["terminationGracePeriodSeconds"] = Ptr(Int("120"))
  BY DEF PodFields
<1>2. DOMAIN fields =
        {"automountServiceAccountToken", "containers", "serviceAccount", "dnsPolicy",
         "restartPolicy", "schedulerName", "securityContext", "serviceAccountName",
         "terminationGracePeriodSeconds", "tolerations", "volumes"}
  BY DEF PodFields
<1> HIDE DEF fields
<1> QED BY <1>1, <1>2, Nonempty DEF fields

\* Nothing is added to a pod that the operator made.
LEMMA PodKept ==
  ASSUME NEW name, NEW s
  PROVE  DefaultPod(Struct(PodFields(name, s))) = Struct(PodFields(name, s))
<1> DEFINE fields == PodFields(name, s)
           pod == Struct(fields)
           account == IF Has(pod, "serviceAccountName")
                      THEN [serviceAccount |-> Field(pod, "serviceAccountName")] ELSE <<>>
           policies == [restartPolicy |-> Str("Always"), dnsPolicy |-> Str("ClusterFirst"),
                        schedulerName |-> Str("default-scheduler"),
                        securityContext |-> Ptr(Empty),
                        terminationGracePeriodSeconds |-> Ptr(Int("30"))]
           defaults == policies @@ account
           containers == Array(<<NotebookContainer(name, s)>>)
           volumes == Array(<<CertificateVolume(name)>>)
<1>1. DOMAIN policies = {"restartPolicy", "dnsPolicy", "schedulerName", "securityContext",
                         "terminationGracePeriodSeconds"}
  OBVIOUS
<1>2. Has(pod, "serviceAccountName") => NotZero(fields["serviceAccountName"])
  <2> HIDE DEF fields
  <2> QED BY ObjectOf DEF Has
<1>3. DOMAIN account \subseteq {"serviceAccount"}
      /\ (DOMAIN account # {} => NotZero(fields["serviceAccountName"]))
  <2>1. CASE Has(pod, "serviceAccountName")
    <3>1. account = [serviceAccount |-> Field(pod, "serviceAccountName")]
      BY <2>1
    <3> HIDE DEF account, fields
    <3> QED BY <1>2, <2>1, <3>1
  <2>2. CASE ~Has(pod, "serviceAccountName")
    <3>1. account = <<>>
      BY <2>2
    <3> HIDE DEF account, fields
    <3> QED BY <3>1
  <2> QED BY <2>1, <2>2
<1> HIDE DEF policies, account, fields
<1>4. \A f \in DOMAIN defaults : f \in DOMAIN fields /\ NotZero(fields[f])
  <2>1. DOMAIN defaults = DOMAIN policies \cup DOMAIN account
    BY DEF @@
  <2> HIDE DEF defaults
  <2> QED BY <1>1, <1>3, <2>1, PodFieldsOf DEF fields
<1> HIDE DEF defaults
<1>5. Default(pod, defaults) = pod
  BY <1>4, DefaultKept
<1>6. DefaultPod(pod)
        = At(At(pod, "containers", LAMBDA list : Each(list, DefaultContainer)),
             "volumes", LAMBDA list : Each(list, DefaultVolume))
  BY <1>5 DEF DefaultPod, defaults, policies, account
<1>7. pod.object["containers"] = containers
  BY PodFieldsOf, StructField DEF fields
<1>8. Has(pod, "volumes") => pod.object["volumes"] = volumes
  <2>1. fields["volumes"] = Given(ShouldHaveCerts(s), volumes) /\ "volumes" \in DOMAIN fields
    BY PodFieldsOf DEF fields
  <2>2. Has(pod, "volumes") => NotZero(fields["volumes"])
    BY ObjectOf DEF Has
  <2>3. ~NotZero(Zero)
    BY DEF NotZero
  <2> HIDE DEF volumes, pod
  <2> QED BY <2>1, <2>2, <2>3, StructField DEF Given, pod
<1> HIDE DEF containers, volumes
<1>9. At(pod, "containers", LAMBDA list : Each(list, DefaultContainer)) = pod
  <2>1. Each(containers, DefaultContainer) = containers
    BY ListsKept DEF containers
  <2> QED BY <1>7, <2>1, FieldKept DEF At
<1>10. At(pod, "volumes", LAMBDA list : Each(list, DefaultVolume)) = pod
  <2>1. Each(volumes, DefaultVolume) = volumes
    BY ListsKept DEF volumes
  <2> QED BY <1>8, <2>1, FieldKept DEF At
<1> QED BY <1>6, <1>9, <1>10 DEF fields
-----------------------------------------------------------------------------
(* What is read back of a template differs in nothing but the quantity. *)

Replaced(v, field, new) == [v EXCEPT !.object[field] = new]

\* A field that is replaced by something else.
LEMMA FieldReplaced ==
  ASSUME NEW v, DOMAIN v = {"object"}, NEW field, Has(v, field), NEW new
  PROVE  LET w == Replaced(v, field, new) IN
         /\ DOMAIN w = {"object"}
         /\ Field(w, field) = new
         /\ \A f : f # field => Field(w, f) = Field(v, f)
<1> DEFINE w == Replaced(v, field, new)
<1>1. DOMAIN w = {"object"} /\ w.object = [v.object EXCEPT ![field] = new]
  BY DEF Replaced
<1> HIDE DEF w
<1>2. DOMAIN w.object = DOMAIN v.object /\ w.object[field] = new
      /\ \A f \in DOMAIN v.object : f # field => w.object[f] = v.object[f]
  BY <1>1 DEF Has
<1> QED BY <1>1, <1>2 DEF Has, Field, w

\* What a container asks for, with the quantity in a format.
Limits(gpu, format) ==
  IF gpu THEN Struct([limits |-> Map("nvidia.com/gpu" :> Quantity("1", format))]) ELSE Empty

LEMMA LimitsOf ==
  ASSUME NEW gpu, NEW format
  PROVE  LET v == Limits(gpu, format) IN
         /\ NotZero(v) /\ DOMAIN v = {"object"}
         /\ gpu => Field(v, "limits") = Map("nvidia.com/gpu" :> Quantity("1", format))
         /\ gpu => Has(v, "limits") /\ v = [object |-> [f \in {"limits"} |-> Field(v, "limits")]]
         /\ ~gpu => v = Empty /\ ~Has(v, "limits")
<1> DEFINE limits == Map("nvidia.com/gpu" :> Quantity("1", format))
           v == Struct([limits |-> limits])
<1>1. NotZero(limits)
  BY Nonempty
<1> HIDE DEF limits
<1>2. v = [object |-> [f \in {"limits"} |-> limits]]
  BY <1>1 DEF Struct, Filled
<1> HIDE DEF v
<1>3. Has(v, "limits") /\ Field(v, "limits") = limits /\ DOMAIN v = {"object"}
  BY <1>2 DEF Has, Field
<1>4. NotZero(v) /\ NotZero(Empty)
  <2>1. DOMAIN v = {"object"} /\ DOMAIN Empty = {"object"}
    BY <1>3 DEF Empty
  <2>2. DOMAIN Zero = {"zero"} /\ DOMAIN Str("") = {"string"} /\ DOMAIN Bool(FALSE) = {"boolean"}
        /\ DOMAIN Array(<<>>) = {"array"}
    BY DEF Zero, Str, Bool, Array
  <2> QED BY <2>1, <2>2 DEF NotZero
<1>5. gpu => Limits(gpu, format) = v
  BY DEF Limits, v, limits
<1>6. ~gpu => Limits(gpu, format) = Empty
  BY DEF Limits
<1>7. ~Has(Empty, "limits") /\ DOMAIN Empty = {"object"}
  BY DEF Empty, Has
<1> QED BY <1>2, <1>3, <1>4, <1>5, <1>6, <1>7 DEF limits

\* A container is read back with its quantity in another format.
LEMMA ContainerRead ==
  ASSUME NEW name, NEW s
  PROVE  LET container == NotebookContainer(name, s)
             read == ReadContainer(container)
         IN /\ DOMAIN read = {"object"}
            /\ \A f : f # "resources" => Field(read, f) = Field(container, f)
            /\ Field(container, "resources") = Limits(s.gpu, "DecimalExponent")
            /\ Field(read, "resources") = Limits(s.gpu, "DecimalSI")
<1> DEFINE fields == ContainerFields(name, s)
           container == Struct(fields)
           asked == Limits(s.gpu, "DecimalExponent")
           Parsed(limits) == Map([k \in DOMAIN limits.map |->
                                   [limits.map[k] EXCEPT !.format = "DecimalSI"]])
           Read(resources) == At(resources, "limits", Parsed)
<1>1. NotebookContainer(name, s) = container
  BY DEF NotebookContainer
<1>2. fields["resources"] = asked /\ "resources" \in DOMAIN fields
  BY DEF ContainerFields, Limits
<1> HIDE DEF fields
<1>3. DOMAIN container = {"object"} /\ Has(container, "resources")
      /\ container.object["resources"] = asked /\ Field(container, "resources") = asked
  <2>1. NotZero(fields["resources"])
    BY <1>2, LimitsOf
  <2>2. DOMAIN container = {"object"} /\ "resources" \in DOMAIN container.object
    BY <1>2, <2>1, ObjectOf
  <2>3. container.object["resources"] = asked /\ Field(container, "resources") = asked
    BY <1>2, <2>1, StructField
  <2> QED BY <2>2, <2>3 DEF Has
<1>4. Read(asked) = Limits(s.gpu, "DecimalSI")
  <2>1. CASE s.gpu
    <3> DEFINE key == "nvidia.com/gpu"
               limits == Map(key :> Quantity("1", "DecimalExponent"))
               parsed == Map(key :> Quantity("1", "DecimalSI"))
    <3>1. Parsed(limits) = parsed
      <4>1. limits.map = [k \in {key} |-> Quantity("1", "DecimalExponent")]
        BY DEF Map, :>
      <4>2. DOMAIN limits.map = {key}
            /\ \A k \in {key} : limits.map[k] = Quantity("1", "DecimalExponent")
        BY <4>1
      <4>3. [Quantity("1", "DecimalExponent") EXCEPT !.format = "DecimalSI"]
              = Quantity("1", "DecimalSI")
        BY DEF Quantity
      <4> HIDE DEF limits
      <4>4. [k \in DOMAIN limits.map |-> [limits.map[k] EXCEPT !.format = "DecimalSI"]]
              = [k \in {key} |-> Quantity("1", "DecimalSI")]
        BY <4>2, <4>3
      <4>5. Parsed(limits) = Map([k \in {key} |-> Quantity("1", "DecimalSI")])
        BY <4>4
      <4>6. parsed = Map([k \in {key} |-> Quantity("1", "DecimalSI")])
        BY DEF :>
      <4> HIDE DEF parsed, Parsed
      <4> QED BY <4>5, <4>6
    <3>2. /\ Has(asked, "limits") /\ asked.object["limits"] = limits
          /\ asked = [object |-> [f \in {"limits"} |-> limits]]
      <4>1. Has(asked, "limits") /\ Field(asked, "limits") = limits
        BY <2>1, LimitsOf
      <4>2. asked = [object |-> [f \in {"limits"} |-> Field(asked, "limits")]]
        BY <2>1, LimitsOf
      <4> HIDE DEF asked, limits
      <4>3. asked.object["limits"] = limits
        BY <4>1 DEF Field
      <4> QED BY <4>1, <4>2, <4>3
    <3>3. Limits(s.gpu, "DecimalSI") = [object |-> [f \in {"limits"} |-> parsed]]
      BY <2>1, LimitsOf
    <3> HIDE DEF limits, parsed, asked, Parsed
    <3>4. [asked EXCEPT !.object["limits"] = parsed] = [object |-> [f \in {"limits"} |-> parsed]]
      BY <3>2
    <3> QED BY <3>1, <3>2, <3>3, <3>4 DEF At
  <2>2. CASE ~s.gpu
    BY <2>2, LimitsOf DEF At
  <2> QED BY <2>1, <2>2
<1>5. ReadContainer(container) = Replaced(container, "resources", Limits(s.gpu, "DecimalSI"))
  <2>1. ReadContainer(container)
          = Replaced(container, "resources", Read(container.object["resources"]))
    BY <1>3 DEF ReadContainer, At, Replaced
  <2> HIDE DEF Read
  <2> QED BY <1>3, <1>4, <2>1
<1> QED BY <1>1, <1>3, <1>5, FieldReplaced

\* Nothing in a template but the pod is another once it is stored.
TemplateKept(template) ==
  /\ DOMAIN StoredTemplate(template) = {"object"}
  /\ \A f : f # "spec" => Field(StoredTemplate(template), f) = Field(template, f)

\* What is read back of a template, field by field.
LEMMA TemplateStored ==
  ASSUME NEW name, NEW s
  PROVE  LET template == PodTemplate(name, s)
             pod == Field(StoredTemplate(template), "spec")
         IN /\ TemplateKept(template)
            /\ Field(template, "spec") = Struct(PodFields(name, s))
            /\ DOMAIN pod = {"object"}
            /\ \A f : f # "containers" => Field(pod, f) = Field(Struct(PodFields(name, s)), f)
            /\ Field(pod, "containers") = Array(<<ReadContainer(NotebookContainer(name, s))>>)
<1> DEFINE fields == PodFields(name, s)
           pod == Struct(fields)
           metadata == Struct([labels |-> Map(MatchLabels(name))])
           templateFields == [metadata |-> metadata, spec |-> pod]
           template == Struct(templateFields)
           container == NotebookContainer(name, s)
           containers == Array(<<container>>)
           Read(v) == At(v, "containers", LAMBDA list : Each(list, ReadContainer))
           Reread(v) == Read(DefaultPod(v))
<1>1. PodTemplate(name, s) = template
  BY DEF PodTemplate
<1>2. pod.object["containers"] = containers /\ Has(pod, "containers") /\ DOMAIN pod = {"object"}
  <2>1. "containers" \in DOMAIN fields /\ fields["containers"] = containers
        /\ NotZero(fields["containers"])
    BY PodFieldsOf
  <2> HIDE DEF fields, containers
  <2> QED BY <2>1, StructField, ObjectOf DEF Has
<1>3. DefaultPod(pod) = pod
  BY PodKept
<1> HIDE DEF fields
<1>4. Each(containers, ReadContainer) = Array(<<ReadContainer(container)>>)
  <2>1. DOMAIN containers.array = {1} /\ containers.array[1] = container
    BY EachKept
  <2> HIDE DEF containers, container
  <2>2. [i \in DOMAIN containers.array |-> ReadContainer(containers.array[i])]
          = <<ReadContainer(container)>>
    BY <2>1
  <2> QED BY <2>2 DEF Each, Array
<1>5. /\ DOMAIN Reread(pod) = {"object"}
      /\ \A f : f # "containers" => Field(Reread(pod), f) = Field(pod, f)
      /\ Field(Reread(pod), "containers") = Array(<<ReadContainer(container)>>)
  <2>1. Reread(pod) = Replaced(pod, "containers", Array(<<ReadContainer(container)>>))
    <3> HIDE DEF containers, pod
    <3> QED BY <1>2, <1>3, <1>4 DEF At, Replaced
  <2> HIDE DEF Reread, pod
  <2> QED BY <1>2, <2>1, FieldReplaced
<1>6. /\ NotZero(pod) /\ "spec" \in DOMAIN templateFields /\ templateFields["spec"] = pod
  BY Nonempty
<1> HIDE DEF pod, templateFields
<1>7. /\ DOMAIN template = {"object"} /\ Has(template, "spec")
      /\ template.object["spec"] = pod /\ Field(template, "spec") = pod
  BY <1>6, ObjectOf, StructField DEF Has
<1> HIDE DEF template, container
<1>8. StoredTemplate(template) = Replaced(template, "spec", Reread(pod))
  <2>1. StoredTemplate(template) = Replaced(template, "spec", Reread(template.object["spec"]))
    BY <1>7 DEF StoredTemplate, At, Replaced
  <2> HIDE DEF Reread
  <2> QED BY <1>7, <2>1
<1> HIDE DEF Reread
<1>9. Field(StoredTemplate(template), "spec") = Reread(pod) /\ TemplateKept(template)
  BY <1>7, <1>8, FieldReplaced DEF TemplateKept
<1> QED BY <1>1, <1>5, <1>7, <1>9 DEF pod, container, fields
-----------------------------------------------------------------------------
(* The comparison, level by level *)

\* No difference is found between a value and itself.
LEMMA SameEqual ==
  ASSUME NEW a
  PROVE  /\ EqualAt0(a, a) /\ EqualAt1(a, a) /\ EqualAt2(a, a) /\ EqualAt3(a, a)
         /\ EqualAt4(a, a) /\ EqualAt5(a, a) /\ EqualAt6(a, a) /\ EqualAt7(a, a)
         /\ EqualAt8(a, a) /\ EqualAt9(a, a) /\ EqualAt10(a, a)
<1>1. EqualAt0(a, a)
  BY DEF EqualAt0, Compare, Alike, Pairs
<1>2. EqualAt1(a, a)
  BY DEF EqualAt1, Compare, Alike, Pairs
<1>3. EqualAt2(a, a)
  BY DEF EqualAt2, Compare, Alike, Pairs
<1>4. EqualAt3(a, a)
  BY DEF EqualAt3, Compare, Alike, Pairs
<1>5. EqualAt4(a, a)
  BY DEF EqualAt4, Compare, Alike, Pairs
<1>6. EqualAt5(a, a)
  BY DEF EqualAt5, Compare, Alike, Pairs
<1>7. EqualAt6(a, a)
  BY DEF EqualAt6, Compare, Alike, Pairs
<1>8. EqualAt7(a, a)
  BY DEF EqualAt7, Compare, Alike, Pairs
<1>9. EqualAt8(a, a)
  BY DEF EqualAt8, Compare, Alike, Pairs
<1>10. EqualAt9(a, a)
  BY DEF EqualAt9, Compare, Alike, Pairs
<1>11. EqualAt10(a, a)
  BY DEF EqualAt10, Compare, Alike, Pairs
<1> QED BY <1>1, <1>2, <1>3, <1>4, <1>5, <1>6, <1>7, <1>8, <1>9, <1>10, <1>11

IsObject(v) == DOMAIN v = {"object"}

\* Two objects are equal if their fields are.
LEMMA ObjectsEqual ==
  ASSUME NEW a, NEW b, IsObject(a), IsObject(b)
  PROVE  /\ EqualAt0(a, b) <=> \A f : EqualAt1(Field(a, f), Field(b, f))
         /\ EqualAt1(a, b) <=> \A f : EqualAt2(Field(a, f), Field(b, f))
         /\ EqualAt3(a, b) <=> \A f : EqualAt4(Field(a, f), Field(b, f))
         /\ EqualAt4(a, b) <=> \A f : EqualAt5(Field(a, f), Field(b, f))
         /\ EqualAt5(a, b) <=> \A f : EqualAt6(Field(a, f), Field(b, f))
         /\ EqualAt7(a, b) <=> \A f : EqualAt8(Field(a, f), Field(b, f))
         /\ EqualAt9(a, b) <=> \A f : EqualAt10(Field(a, f), Field(b, f))
<1>1. \A f : f \notin DOMAIN a.object \cup DOMAIN b.object => Field(a, f) = Field(b, f)
  BY DEF Field, Has
<1>2. /\ "ptr" \notin DOMAIN a /\ "ptr" \notin DOMAIN b
      /\ "object" \in DOMAIN a /\ "object" \in DOMAIN b
      /\ "map" \notin DOMAIN a /\ "array" \notin DOMAIN a /\ "quantity" \notin DOMAIN a
  BY DEF IsObject
<1> DEFINE fields == DOMAIN a.object \cup DOMAIN b.object
<1>3. Alike(a, b)
  BY <1>2 DEF Alike
<1>4. Pairs(a, b) = {<<Field(a, f), Field(b, f)>> : f \in fields}
  BY <1>2 DEF Pairs
<1> HIDE DEF fields
<1>5. ASSUME NEW f \in fields
      PROVE  \E pair \in Pairs(a, b) : pair[1] = Field(a, f) /\ pair[2] = Field(b, f)
  <2>1. <<Field(a, f), Field(b, f)>> \in Pairs(a, b)
    BY <1>4
  <2> WITNESS <<Field(a, f), Field(b, f)>> \in Pairs(a, b)
  <2> QED OBVIOUS
<1>6. ASSUME NEW pair \in Pairs(a, b)
      PROVE  \E f \in fields : pair[1] = Field(a, f) /\ pair[2] = Field(b, f)
  <2>1. PICK f \in fields : pair = <<Field(a, f), Field(b, f)>>
    BY <1>4
  <2> QED BY <2>1
<1>7. \A f : f \notin fields => Field(a, f) = Field(b, f)
  BY <1>1 DEF fields
<1>8. EqualAt0(a, b) <=> \A f : EqualAt1(Field(a, f), Field(b, f))
  BY <1>3, <1>5, <1>6, <1>7, SameEqual DEF EqualAt0, Compare
<1>9. EqualAt1(a, b) <=> \A f : EqualAt2(Field(a, f), Field(b, f))
  BY <1>3, <1>5, <1>6, <1>7, SameEqual DEF EqualAt1, Compare
<1>10. EqualAt3(a, b) <=> \A f : EqualAt4(Field(a, f), Field(b, f))
  BY <1>3, <1>5, <1>6, <1>7, SameEqual DEF EqualAt3, Compare
<1>11. EqualAt4(a, b) <=> \A f : EqualAt5(Field(a, f), Field(b, f))
  BY <1>3, <1>5, <1>6, <1>7, SameEqual DEF EqualAt4, Compare
<1>12. EqualAt5(a, b) <=> \A f : EqualAt6(Field(a, f), Field(b, f))
  BY <1>3, <1>5, <1>6, <1>7, SameEqual DEF EqualAt5, Compare
<1>13. EqualAt7(a, b) <=> \A f : EqualAt8(Field(a, f), Field(b, f))
  BY <1>3, <1>5, <1>6, <1>7, SameEqual DEF EqualAt7, Compare
<1>14. EqualAt9(a, b) <=> \A f : EqualAt10(Field(a, f), Field(b, f))
  BY <1>3, <1>5, <1>6, <1>7, SameEqual DEF EqualAt9, Compare
<1> QED BY <1>8, <1>9, <1>10, <1>11, <1>12, <1>13, <1>14

\* Two pointers are equal if what they point to is, one level further down.
LEMMA PointersEqual ==
  ASSUME NEW v, NEW w
  PROVE  /\ EqualAt4(Ptr(v), Ptr(w)) <=> EqualAt5(v, w)
         /\ EqualAt6(Ptr(v), Ptr(w)) <=> EqualAt7(v, w)
         /\ EqualAt8(Ptr(v), Ptr(w)) <=> EqualAt9(v, w)
         /\ EqualAt4(Ptr(v), Zero) <=> EqualAt5(v, Zero)
         /\ EqualAt4(Zero, Ptr(w)) <=> EqualAt5(Zero, w)
<1>1. /\ DOMAIN Ptr(v) = {"ptr"} /\ DOMAIN Ptr(w) = {"ptr"} /\ DOMAIN Zero = {"zero"}
      /\ Elem(Ptr(v)) = v /\ Elem(Ptr(w)) = w /\ Elem(Zero) = Zero
      /\ Ptr(v).ptr = v /\ Ptr(w).ptr = w
  BY DEF Ptr, Zero, Elem
<1>2. Ptr(v) = Ptr(w) => v = w
  BY <1>1
<1>3. Ptr(v) # Zero /\ Ptr(w) # Zero
  BY <1>1
<1>4. /\ Pairs(Ptr(v), Ptr(w)) = {<<v, w>>}
      /\ Pairs(Ptr(v), Zero) = {<<v, Zero>>}
      /\ Pairs(Zero, Ptr(w)) = {<<Zero, w>>}
  BY <1>1 DEF Pairs
<1>5. Alike(Ptr(v), Ptr(w)) /\ Alike(Ptr(v), Zero) /\ Alike(Zero, Ptr(w))
  BY <1>1 DEF Alike
<1>6. EqualAt4(Ptr(v), Ptr(w)) <=> EqualAt5(v, w)
  BY <1>2, <1>4, <1>5, SameEqual DEF EqualAt4, Compare
<1>7. EqualAt4(Ptr(v), Zero) <=> EqualAt5(v, Zero)
  BY <1>3, <1>4, <1>5 DEF EqualAt4, Compare
<1>8. EqualAt4(Zero, Ptr(w)) <=> EqualAt5(Zero, w)
  BY <1>3, <1>4, <1>5 DEF EqualAt4, Compare
<1>9. EqualAt6(Ptr(v), Ptr(w)) <=> EqualAt7(v, w)
  BY <1>2, <1>4, <1>5, SameEqual DEF EqualAt6, Compare
<1>10. EqualAt8(Ptr(v), Ptr(w)) <=> EqualAt9(v, w)
  BY <1>2, <1>4, <1>5, SameEqual DEF EqualAt8, Compare
<1> QED BY <1>6, <1>7, <1>8, <1>9, <1>10

\* Two lists are equal if they are as long as each other and their elements are
\* equal; what is beyond the last level is not looked at.
LEMMA ListsEqual ==
  ASSUME NEW v, NEW w
  PROVE  /\ EqualAt2(Array(<<v>>), Array(<<w>>)) <=> EqualAt3(v, w)
         /\ \A p, q : EqualAt10(Array(p), Array(q)) <=> Len(p) = Len(q)
<1>1. EqualAt2(Array(<<v>>), Array(<<w>>)) <=> EqualAt3(v, w)
  <2> DEFINE a == Array(<<v>>)
             b == Array(<<w>>)
  <2>1. /\ DOMAIN a = {"array"} /\ DOMAIN b = {"array"}
        /\ Len(a.array) = Len(b.array)
        /\ DOMAIN a.array = {1} /\ a.array[1] = v /\ b.array[1] = w
    BY DEF Array
  <2>2. a = b => v = w
    BY <2>1
  <2> HIDE DEF a, b
  <2>3. Alike(a, b)
    BY <2>1 DEF Alike
  <2>4. Pairs(a, b) = {<<v, w>>}
    <3>1. Pairs(a, b) = {<<a.array[i], b.array[i]>> : i \in DOMAIN a.array}
      BY <2>1 DEF Pairs
    <3> QED BY <2>1, <3>1
  <2>5. EqualAt2(a, b) <=> EqualAt3(v, w)
    BY <2>2, <2>3, <2>4, SameEqual DEF EqualAt2, Compare
  <2> QED BY <2>5 DEF a, b
<1>2. ASSUME NEW p, NEW q
      PROVE  EqualAt10(Array(p), Array(q)) <=> Len(p) = Len(q)
  <2>1. /\ DOMAIN Array(p) = {"array"} /\ DOMAIN Array(q) = {"array"}
        /\ Array(p).array = p /\ Array(q).array = q
    BY DEF Array
  <2> QED BY <2>1 DEF EqualAt10, Compare, Alike, Pairs, BeyondMaxDepth
<1> QED BY <1>1, <1>2

\* Values with nothing in them, and values of which one is not there.
LEMMA PlainEqual ==
  ASSUME NEW a, NEW b,
         DOMAIN a \cap DOMAIN b \subseteq {"string", "integer", "boolean", "zero"},
         "ptr" \notin DOMAIN a \cup DOMAIN b
  PROVE  /\ EqualAt2(a, b) <=> a = b
         /\ EqualAt4(a, b) <=> a = b
         /\ EqualAt5(a, b) <=> a = b
         /\ EqualAt7(a, b) <=> a = b
<1>1. EqualAt2(a, b) <=> a = b
  BY DEF EqualAt2, Compare, Alike, Pairs
<1>2. EqualAt4(a, b) <=> a = b
  BY DEF EqualAt4, Compare, Alike, Pairs
<1>3. EqualAt5(a, b) <=> a = b
  BY DEF EqualAt5, Compare, Alike, Pairs
<1>4. EqualAt7(a, b) <=> a = b
  BY DEF EqualAt7, Compare, Alike, Pairs
<1> QED BY <1>1, <1>2, <1>3, <1>4

\* What a struct says of a field.
Stands(v) == IF NotZero(v) THEN v ELSE Zero

LEMMA StructFields ==
  ASSUME NEW fields
  PROVE  /\ IsObject(Struct(fields))
         /\ \A f \in DOMAIN fields : Field(Struct(fields), f) = Stands(fields[f])
         /\ \A f : f \notin DOMAIN fields => Field(Struct(fields), f) = Zero
<1> DEFINE v == Struct(fields)
<1>1. DOMAIN v = {"object"} /\ DOMAIN v.object = {f \in DOMAIN fields : NotZero(fields[f])}
  BY ObjectOf
<1>2. \A f \in DOMAIN fields : Field(v, f) = Stands(fields[f])
  BY StructField DEF Stands
<1> HIDE DEF v
<1>3. \A f : f \notin DOMAIN fields => Field(v, f) = Zero
  BY <1>1 DEF Field, Has
<1> QED BY <1>1, <1>2, <1>3 DEF IsObject, v

\* The specification has a list of packages.
Listed(s) ==
  /\ Len(s.packages) \in Nat
  /\ DOMAIN s.packages = 1..Len(s.packages)
  /\ s.packages = [i \in DOMAIN s.packages |-> s.packages[i]]

Command(s) ==
  <<Str("conda"), Str("install"), Str("-y")>>
    \o [i \in DOMAIN s.packages |-> Str(Word(s.packages[i]))]

LEMMA ConcatLength ==
  ASSUME NEW S, NEW p \in Seq(S), NEW q \in Seq(S)
  PROVE  Len(p \o q) = Len(p) + Len(q)
OBVIOUS

\* The command is as long as the list, and three more.
LEMMA CommandLength ==
  ASSUME NEW s, Listed(s)
  PROVE  /\ Len(Command(s)) = 3 + Len(s.packages)
         /\ Command(s) # <<>>
         /\ s.packages = <<>> <=> Len(s.packages) = 0
<1> DEFINE values == {Str("conda"), Str("install"), Str("-y")}
                       \cup {Str(Word(s.packages[i])) : i \in DOMAIN s.packages}
           first == <<Str("conda"), Str("install"), Str("-y")>>
           words == [i \in DOMAIN s.packages |-> Str(Word(s.packages[i]))]
<1>1. words \in Seq(values) /\ Len(words) = Len(s.packages)
  <2>1. words \in [1..Len(s.packages) -> values]
    BY DEF Listed
  <2> HIDE DEF words, values
  <2> QED BY <2>1 DEF Listed
<1>2. first \in Seq(values) /\ Len(first) = 3
  OBVIOUS
<1> HIDE DEF first, words, values
<1>3. Len(first \o words) = 3 + Len(s.packages)
  <2>1. Len(first \o words) = Len(first) + Len(words)
    BY <1>1, <1>2, ConcatLength
  <2>2. Len(first) = 3 /\ Len(words) = Len(s.packages) /\ Len(s.packages) \in Nat
    BY <1>1, <1>2 DEF Listed
  <2> QED BY <2>1, <2>2
<1>4. Command(s) = first \o words
  BY DEF Command, first, words
<1>5. Command(s) # <<>>
  BY <1>3, <1>4 DEF Listed
<1>6. s.packages = <<>> <=> Len(s.packages) = 0
  <2>1. Len(s.packages) = 0 => DOMAIN s.packages = {}
    BY DEF Listed
  <2> QED BY <2>1 DEF Listed
<1> QED BY <1>3, <1>4, <1>5, <1>6

Hook(s) == Given(s.packages # <<>>, Ptr(Struct([postStart |-> PostStart(s)])))

\* A struct of one field.
LEMMA OneField ==
  ASSUME NEW fields, NEW field, DOMAIN fields = {field}, NotZero(fields[field])
  PROVE  /\ IsObject(Struct(fields))
         /\ Field(Struct(fields), field) = fields[field]
         /\ \A f : f # field => Field(Struct(fields), f) = Zero
BY StructFields DEF Stands

\* Of the packages that are installed after the start the comparison sees only
\* how many there are.
LEMMA HooksEqual ==
  ASSUME NEW s, NEW t, Listed(s), Listed(t)
  PROVE  EqualAt4(Hook(s), Hook(t)) <=> Len(s.packages) = Len(t.packages)
<1> DEFINE Third(u) == Struct([command |-> Array(Command(u))])
           Second(u) == Struct([exec |-> Ptr(Third(u))])
           First(u) == Struct([postStart |-> Ptr(Second(u))])
<1>1. \A u : Hook(u) = Given(u.packages # <<>>, Ptr(First(u)))
  BY DEF Hook, PostStart, Command
<1>2. ASSUME NEW u, Listed(u)
      PROVE  /\ IsObject(Third(u)) /\ Field(Third(u), "command") = Array(Command(u))
             /\ \A f : f # "command" => Field(Third(u), f) = Zero
  <2>1. NotZero(Array(Command(u)))
    <3>1. DOMAIN Array(Command(u)) = {"array"} /\ Array(Command(u)).array = Command(u)
          /\ Array(<<>>).array = <<>>
      BY DEF Array
    <3>2. DOMAIN Zero = {"zero"} /\ DOMAIN Str("") = {"string"} /\ DOMAIN Bool(FALSE) = {"boolean"}
      BY DEF Zero, Str, Bool
    <3> QED BY <3>1, <3>2, <1>2, CommandLength DEF NotZero
  <2> DEFINE fields == [command |-> Array(Command(u))]
  <2>2. DOMAIN fields = {"command"} /\ fields["command"] = Array(Command(u))
    OBVIOUS
  <2>3. Third(u) = Struct(fields)
    OBVIOUS
  <2> HIDE DEF fields, Third
  <2> QED BY <2>1, <2>2, <2>3, OneField
<1>3. ASSUME NEW u
      PROVE  /\ IsObject(Second(u)) /\ Field(Second(u), "exec") = Ptr(Third(u))
             /\ \A f : f # "exec" => Field(Second(u), f) = Zero
  <2> DEFINE fields == [exec |-> Ptr(Third(u))]
  <2>2. DOMAIN fields = {"exec"} /\ fields["exec"] = Ptr(Third(u)) /\ NotZero(fields["exec"])
    BY Nonempty
  <2>3. Second(u) = Struct(fields)
    OBVIOUS
  <2> HIDE DEF fields, Second
  <2> QED BY <2>2, <2>3, OneField
<1>4. ASSUME NEW u
      PROVE  /\ IsObject(First(u)) /\ Field(First(u), "postStart") = Ptr(Second(u))
             /\ \A f : f # "postStart" => Field(First(u), f) = Zero
  <2> DEFINE fields == [postStart |-> Ptr(Second(u))]
  <2>2. DOMAIN fields = {"postStart"} /\ fields["postStart"] = Ptr(Second(u))
        /\ NotZero(fields["postStart"])
    BY Nonempty
  <2>3. First(u) = Struct(fields)
    OBVIOUS
  <2> HIDE DEF fields, First
  <2> QED BY <2>2, <2>3, OneField
<1> HIDE DEF First, Second, Third
<1>5. EqualAt9(Third(s), Third(t)) <=> Len(s.packages) = Len(t.packages)
  <2>1. EqualAt9(Third(s), Third(t)) <=> EqualAt10(Array(Command(s)), Array(Command(t)))
    BY <1>2, ObjectsEqual, SameEqual
  <2>2. EqualAt10(Array(Command(s)), Array(Command(t))) <=> Len(Command(s)) = Len(Command(t))
    BY ListsEqual
  <2>3. Len(Command(s)) = 3 + Len(s.packages) /\ Len(Command(t)) = 3 + Len(t.packages)
    BY CommandLength
  <2>4. Len(s.packages) \in Nat /\ Len(t.packages) \in Nat
    BY DEF Listed
  <2>5. Len(Command(s)) = Len(Command(t)) <=> Len(s.packages) = Len(t.packages)
    BY <2>3, <2>4
  <2> QED BY <2>1, <2>2, <2>5
<1>6. EqualAt7(Second(s), Second(t)) <=> EqualAt9(Third(s), Third(t))
  BY <1>3, ObjectsEqual, PointersEqual, SameEqual
<1>7. EqualAt5(First(s), First(t)) <=> EqualAt7(Second(s), Second(t))
  BY <1>4, ObjectsEqual, PointersEqual, SameEqual
<1>8. \A u : ~EqualAt5(First(u), Zero) /\ ~EqualAt5(Zero, First(u))
  <2> TAKE u
  <2>1. DOMAIN First(u) = {"object"} /\ DOMAIN Zero = {"zero"} /\ First(u) # Zero
    BY <1>4 DEF IsObject, Zero
  <2> QED BY <2>1, PlainEqual
<1>9. CASE s.packages # <<>> /\ t.packages # <<>>
  BY <1>1, <1>5, <1>6, <1>7, <1>9, PointersEqual DEF Given
<1>10. CASE s.packages # <<>> /\ t.packages = <<>>
  BY <1>1, <1>8, <1>10, PointersEqual, CommandLength DEF Given
<1>11. CASE s.packages = <<>> /\ t.packages # <<>>
  BY <1>1, <1>8, <1>11, PointersEqual, CommandLength DEF Given
<1>12. CASE s.packages = <<>> /\ t.packages = <<>>
  BY <1>1, <1>12, SameEqual, CommandLength DEF Given
<1> QED BY <1>9, <1>10, <1>11, <1>12
-----------------------------------------------------------------------------
(* The comparison of a template with a stored one *)

\* What stands for itself.
LEMMA StandsForItself ==
  /\ \A v : NotZero(v) => Stands(v) = v
  /\ Stands(Zero) = Zero
  /\ \A s : Stands(Hook(s)) = Hook(s)
  /\ \A condition, v : Stands(Given(condition, Array(<<v>>))) = Given(condition, Array(<<v>>))
BY Nonempty DEF Stands, Hook, Given

\* Two texts in a struct, one of which may be empty and so not there.
LEMMA TextsEqual ==
  ASSUME NEW p, NEW q
  PROVE  /\ EqualAt2(Stands(Str(p)), Stands(Str(q))) <=> p = q
         /\ EqualAt4(Stands(Str(p)), Stands(Str(q))) <=> p = q
<1>1. \A t : DOMAIN Stands(Str(t)) \in {{"string"}, {"zero"}}
  BY DEF Stands, Str, Zero
<1>2. Stands(Str(p)) = Stands(Str(q)) => p = q
  <2>1. \A t : Stands(Str(t)) = IF t = "" THEN Zero ELSE Str(t)
    <3>1. ~NotZero(Str(""))
      BY DEF NotZero
    <3> QED BY <3>1, Nonempty DEF Stands
  <2>2. \A t : Str(t) # Zero /\ Str(t).string = t
    BY Nonzero DEF Str
  <2>3. CASE p = "" /\ q = ""
    BY <2>3
  <2>4. CASE p = "" /\ q # ""
    <3>1. Stands(Str(p)) = Zero /\ Stands(Str(q)) = Str(q)
      BY <2>1, <2>4
    <3> QED BY <2>2, <3>1
  <2>5. CASE p # "" /\ q = ""
    <3>1. Stands(Str(p)) = Str(p) /\ Stands(Str(q)) = Zero
      BY <2>1, <2>5
    <3> QED BY <2>2, <3>1
  <2>6. CASE p # "" /\ q # ""
    <3>1. Stands(Str(p)) = Str(p) /\ Stands(Str(q)) = Str(q)
      BY <2>1, <2>6
    <3>2. Str(p) = Str(q) => Str(p).string = Str(q).string
      OBVIOUS
    <3>3. Str(p).string = p /\ Str(q).string = q
      BY DEF Str
    <3> QED BY <3>1, <3>2, <3>3
  <2> QED BY <2>3, <2>4, <2>5, <2>6
<1> DEFINE a == Stands(Str(p))
           b == Stands(Str(q))
<1>3. DOMAIN a \cap DOMAIN b \subseteq {"string", "integer", "boolean", "zero"}
      /\ "ptr" \notin DOMAIN a \cup DOMAIN b
  BY <1>1
<1> HIDE DEF a, b
<1>4. (EqualAt2(a, b) <=> a = b) /\ (EqualAt4(a, b) <=> a = b)
  BY <1>3, PlainEqual
<1> QED BY <1>2, <1>4 DEF a, b

\* A list of one that both have, or neither, or one of them.
LEMMA GivenEqual ==
  ASSUME NEW condition, NEW other, NEW v
  PROVE  LET a == Given(condition, Array(<<v>>))
             b == Given(other, Array(<<v>>))
         IN /\ EqualAt2(a, b) <=> (condition <=> other)
            /\ EqualAt4(a, b) <=> (condition <=> other)
<1> DEFINE list == Array(<<v>>)
<1>1. DOMAIN list = {"array"} /\ DOMAIN Zero = {"zero"}
  BY DEF Array, Zero
<1> HIDE DEF list
<1>2. list # Zero
  BY <1>1
<1>3. ~EqualAt2(list, Zero) /\ ~EqualAt2(Zero, list) /\ ~EqualAt4(list, Zero) /\ ~EqualAt4(Zero, list)
  BY <1>1, <1>2, PlainEqual
<1>4. EqualAt2(list, list) /\ EqualAt2(Zero, Zero) /\ EqualAt4(list, list) /\ EqualAt4(Zero, Zero)
  BY SameEqual
<1>5. EqualAt2(Given(condition, list), Given(other, list)) <=> (condition <=> other)
  BY <1>3, <1>4 DEF Given
<1>6. EqualAt4(Given(condition, list), Given(other, list)) <=> (condition <=> other)
  BY <1>3, <1>4 DEF Given
<1> QED BY <1>5, <1>6 DEF list

\* A quantity that was formatted in another way is a difference.
LEMMA QuantitiesDiffer ==
  ~EqualAt4(Limits(TRUE, "DecimalExponent"), Limits(TRUE, "DecimalSI"))
<1> DEFINE q(format) == Quantity("1", format)
           m(format) == Map("nvidia.com/gpu" :> q(format))
           p == q("DecimalExponent")
           r == q("DecimalSI")
           a == m("DecimalExponent")
           b == m("DecimalSI")
<1>1. ~EqualAt7(Str("DecimalExponent"), Str("DecimalSI"))
  <2>1. DOMAIN Str("DecimalExponent") = {"string"} /\ DOMAIN Str("DecimalSI") = {"string"}
        /\ Str("DecimalExponent").string = "DecimalExponent" /\ Str("DecimalSI").string = "DecimalSI"
    BY DEF Str
  <2>2. Str("DecimalExponent") # Str("DecimalSI")
    BY <2>1
  <2> QED BY <2>1, <2>2, PlainEqual
<1>2. ~EqualAt6(p, r)
  <2>1. DOMAIN p = {"quantity", "format"} /\ DOMAIN r = {"quantity", "format"}
        /\ p.format = "DecimalExponent" /\ r.format = "DecimalSI"
    BY DEF Quantity
  <2> HIDE DEF p, r
  <2>2. p # r
    BY <2>1
  <2> QED BY <1>1, <2>1, <2>2 DEF EqualAt6, Compare, Alike, Pairs
<1>3. ~EqualAt5(a, b)
  <2>1. /\ DOMAIN a = {"map"} /\ DOMAIN b = {"map"}
        /\ DOMAIN a.map = {"nvidia.com/gpu"} /\ DOMAIN b.map = {"nvidia.com/gpu"}
        /\ a.map["nvidia.com/gpu"] = p /\ b.map["nvidia.com/gpu"] = r
    BY DEF Map, :>
  <2>2. a # b
    <3>1. p # r
      BY <1>2, SameEqual
    <3> HIDE DEF a, b, p, r
    <3> QED BY <2>1, <3>1
  <2> HIDE DEF a, b, p, r
  <2>3. <<p, r>> \in Pairs(a, b)
    <3>1. Pairs(a, b) = {<<a.map[k], b.map[k]>> : k \in DOMAIN a.map}
      BY <2>1 DEF Pairs
    <3> QED BY <2>1, <3>1
  <2> QED BY <1>2, <2>2, <2>3 DEF EqualAt5, Compare
<1>4. /\ Field(Limits(TRUE, "DecimalExponent"), "limits") = a
      /\ Field(Limits(TRUE, "DecimalSI"), "limits") = b
      /\ IsObject(Limits(TRUE, "DecimalExponent")) /\ IsObject(Limits(TRUE, "DecimalSI"))
  BY LimitsOf DEF IsObject
<1> HIDE DEF a, b
<1> QED BY <1>3, <1>4, ObjectsEqual

\* What the comparison finds of two specifications, apart from the service
\* account, if neither asks for a GPU.
SameContainers(s, t) ==
  /\ s.flavor = t.flavor
  /\ Len(s.packages) = Len(t.packages)
  /\ IsSet(s.password) <=> IsSet(t.password)
  /\ ShouldHaveCerts(s) <=> ShouldHaveCerts(t)

\* The fields of a container that are not the same for every notebook.
LEMMA ContainerFieldsVary ==
  ASSUME NEW name, NEW s
  PROVE  LET fields == ContainerFields(name, s) IN
         /\ fields["image"] = Str(Image(s.flavor))
         /\ fields["lifecycle"] = Hook(s)
         /\ fields["env"] = Given(IsSet(s.password), Array(<<PasswordVariable(name)>>))
         /\ fields["volumeMounts"] =
              Given(ShouldHaveCerts(s),
                Array(<<Struct([name |-> Str("tls"), readOnly |-> Bool(TRUE),
                                mountPath |-> Str(MountPath)])>>))
         /\ fields["resources"] = Limits(s.gpu, "DecimalExponent")
BY DEF ContainerFields, Hook, Limits

LEMMA ContainerFieldsSame ==
  ASSUME NEW name, NEW s, NEW t, SameContainers(s, t)
  PROVE  LET p == ContainerFields(name, s)
             q == ContainerFields(name, t)
         IN \A f \in {"args", "image", "imagePullPolicy", "name", "ports",
                      "terminationMessagePath", "terminationMessagePolicy", "env",
                      "volumeMounts"} : p[f] = q[f]
<1> DEFINE p == ContainerFields(name, s)
           q == ContainerFields(name, t)
<1>1. p["image"] = q["image"]
  BY ContainerFieldsVary DEF SameContainers
<1>2. p["env"] = q["env"] /\ p["volumeMounts"] = q["volumeMounts"]
  BY ContainerFieldsVary DEF SameContainers, Given
<1>3. p["args"] = q["args"]
  BY DEF ContainerFields, SameContainers
<1>4. /\ p["imagePullPolicy"] = q["imagePullPolicy"] /\ p["name"] = q["name"]
      /\ p["ports"] = q["ports"] /\ p["terminationMessagePath"] = q["terminationMessagePath"]
      /\ p["terminationMessagePolicy"] = q["terminationMessagePolicy"]
  BY DEF ContainerFields
<1> HIDE DEF p, q
<1> QED BY <1>1, <1>2, <1>3, <1>4 DEF p, q

\* Two containers, one of them read back.
LEMMA ContainersEqual ==
  ASSUME NEW name, NEW s, NEW t, Listed(s), Listed(t), s.flavor \in Text, t.flavor \in Text
  PROVE  LET a == NotebookContainer(name, s)
             b == ReadContainer(NotebookContainer(name, t))
         IN /\ EqualAt3(a, b) => /\ s.flavor = t.flavor
                                 /\ Len(s.packages) = Len(t.packages)
                                 /\ IsSet(s.password) <=> IsSet(t.password)
                                 /\ ~(s.gpu /\ t.gpu)
            /\ SameContainers(s, t) /\ ~s.gpu /\ ~t.gpu => EqualAt3(a, b)
<1> DEFINE p == ContainerFields(name, s)
           q == ContainerFields(name, t)
           a == NotebookContainer(name, s)
           c == NotebookContainer(name, t)
           b == ReadContainer(c)
           Names == {"args", "image", "imagePullPolicy", "lifecycle", "name", "ports",
                     "terminationMessagePath", "terminationMessagePolicy", "env",
                     "volumeMounts", "resources"}
<1>1. a = Struct(p) /\ c = Struct(q)
  BY DEF NotebookContainer
<1>2. DOMAIN p = Names /\ DOMAIN q = Names
  BY ContainerFieldsOf
<1> HIDE DEF p, q
<1>3. IsObject(a) /\ \A f \in Names : Field(a, f) = Stands(p[f])
  BY <1>1, <1>2, StructFields
<1>4. \A f : f \notin Names => Field(a, f) = Zero /\ Field(c, f) = Zero
  BY <1>1, <1>2, StructFields
<1>5. \A f \in Names : Field(c, f) = Stands(q[f])
  BY <1>1, <1>2, StructFields
<1>6. /\ IsObject(b) /\ \A f : f # "resources" => Field(b, f) = Field(c, f)
      /\ Field(a, "resources") = Limits(s.gpu, "DecimalExponent")
      /\ Field(b, "resources") = Limits(t.gpu, "DecimalSI")
  BY ContainerRead DEF IsObject
<1> HIDE DEF a, b, c
<1>7. EqualAt3(a, b) <=> \A f : EqualAt4(Field(a, f), Field(b, f))
  BY <1>3, <1>6, ObjectsEqual
<1>8. EqualAt4(Field(a, "image"), Field(b, "image")) <=> s.flavor = t.flavor
  <2>1. Field(a, "image") = Stands(Str(Image(s.flavor)))
        /\ Field(b, "image") = Stands(Str(Image(t.flavor)))
    <3>1. p["image"] = Str(Image(s.flavor)) /\ q["image"] = Str(Image(t.flavor))
      BY ContainerFieldsVary DEF p, q
    <3> QED BY <1>3, <1>5, <1>6, <3>1
  <2>2. EqualAt4(Field(a, "image"), Field(b, "image")) <=> Image(s.flavor) = Image(t.flavor)
    BY <2>1, TextsEqual
  <2> QED BY <2>2, FlavorsAssumption
<1>9. EqualAt4(Field(a, "lifecycle"), Field(b, "lifecycle"))
        <=> Len(s.packages) = Len(t.packages)
  <2>1. Field(a, "lifecycle") = Hook(s) /\ Field(b, "lifecycle") = Hook(t)
    <3>1. p["lifecycle"] = Hook(s) /\ q["lifecycle"] = Hook(t)
      BY ContainerFieldsVary DEF p, q
    <3>2. Field(a, "lifecycle") = Stands(p["lifecycle"])
          /\ Field(b, "lifecycle") = Stands(q["lifecycle"])
      BY <1>3, <1>5, <1>6
    <3>3. Stands(Hook(s)) = Hook(s) /\ Stands(Hook(t)) = Hook(t)
      BY StandsForItself
    <3> QED BY <3>1, <3>2, <3>3
  <2> QED BY <2>1, HooksEqual
<1>10. EqualAt4(Field(a, "env"), Field(b, "env")) <=> (IsSet(s.password) <=> IsSet(t.password))
  <2> DEFINE v == PasswordVariable(name)
  <2>1. Field(a, "env") = Given(IsSet(s.password), Array(<<v>>))
        /\ Field(b, "env") = Given(IsSet(t.password), Array(<<v>>))
    <3> DEFINE variable(x) == Given(IsSet(x.password), Array(<<v>>))
    <3>1. p["env"] = variable(s) /\ q["env"] = variable(t)
      BY ContainerFieldsVary DEF p, q
    <3>2. Field(a, "env") = Stands(p["env"]) /\ Field(b, "env") = Stands(q["env"])
      BY <1>3, <1>5, <1>6
    <3>3. Stands(variable(s)) = variable(s) /\ Stands(variable(t)) = variable(t)
      BY StandsForItself
    <3> QED BY <3>1, <3>2, <3>3
  <2> HIDE DEF v
  <2> QED BY <2>1, GivenEqual
<1>11. ASSUME s.gpu, t.gpu
       PROVE  ~EqualAt4(Field(a, "resources"), Field(b, "resources"))
  <2>1. \A format : Limits(s.gpu, format) = Limits(TRUE, format)
                    /\ Limits(t.gpu, format) = Limits(TRUE, format)
    BY <1>11 DEF Limits
  <2> QED BY <1>6, <2>1, QuantitiesDiffer
<1>12. ASSUME SameContainers(s, t), ~s.gpu, ~t.gpu, NEW f
       PROVE  EqualAt4(Field(a, f), Field(b, f))
  <2>1. CASE f \notin Names
    BY <1>4, <1>6, <2>1, SameEqual
  <2>2. CASE f = "resources"
    <3>1. Field(a, f) = Empty /\ Field(b, f) = Empty
      BY <1>6, <1>12, <2>2 DEF Limits
    <3> QED BY <3>1, SameEqual
  <2>3. CASE f = "lifecycle"
    BY <1>9, <1>12, <2>3 DEF SameContainers
  <2>4. CASE f \in Names \ {"resources", "lifecycle"}
    <3>1. p[f] = q[f]
      BY <1>12, <2>4, ContainerFieldsSame DEF p, q
    <3> QED BY <1>3, <1>5, <1>6, <2>4, <3>1, SameEqual
  <2> QED BY <2>1, <2>2, <2>3, <2>4
<1> QED BY <1>7, <1>8, <1>9, <1>10, <1>11, <1>12 DEF a, b, c

\* The fields of a pod that are not the same for every notebook.
LEMMA PodFieldsVary ==
  ASSUME NEW name, NEW s
  PROVE  LET fields == PodFields(name, s) IN
         /\ fields["automountServiceAccountToken"] = Ptr(Bool(s.serviceAccountName # ""))
         /\ fields["tolerations"] =
              Given(s.gpu,
                Array(<<Struct([key |-> Str("nvidia.com/gpu"), effect |-> Str("NoSchedule"),
                                operator |-> Str("Exists")])>>))
BY DEF PodFields

LEMMA PodFieldsSame ==
  ASSUME NEW name, NEW s, NEW t
  PROVE  LET p == PodFields(name, s)
             q == PodFields(name, t)
         IN \A f \in {"dnsPolicy", "restartPolicy", "schedulerName", "securityContext",
                      "terminationGracePeriodSeconds"} : p[f] = q[f]
<1> DEFINE p == PodFields(name, s)
           q == PodFields(name, t)
<1>1. /\ p["dnsPolicy"] = q["dnsPolicy"] /\ p["restartPolicy"] = q["restartPolicy"]
      /\ p["schedulerName"] = q["schedulerName"]
      /\ p["securityContext"] = q["securityContext"]
      /\ p["terminationGracePeriodSeconds"] = q["terminationGracePeriodSeconds"]
  BY DEF PodFields
<1> HIDE DEF p, q
<1> QED BY <1>1 DEF p, q

\* Two pods, one of them stored and read back.
LEMMA PodsEqual ==
  ASSUME NEW name, NEW s, NEW t, Listed(s), Listed(t), s.flavor \in Text, t.flavor \in Text
  PROVE  LET a == Struct(PodFields(name, s))
             b == Field(StoredTemplate(PodTemplate(name, t)), "spec")
         IN EqualAt1(a, b) <=> /\ SameContainers(s, t)
                               /\ s.serviceAccountName = t.serviceAccountName
                               /\ ~s.gpu /\ ~t.gpu
<1> DEFINE p == PodFields(name, s)
           q == PodFields(name, t)
           a == Struct(p)
           c == Struct(q)
           b == Field(StoredTemplate(PodTemplate(name, t)), "spec")
           container == NotebookContainer(name, s)
           read == ReadContainer(NotebookContainer(name, t))
           Names == {"automountServiceAccountToken", "containers", "serviceAccount", "dnsPolicy",
                     "restartPolicy", "schedulerName", "securityContext", "serviceAccountName",
                     "terminationGracePeriodSeconds", "tolerations", "volumes"}
<1>1. DOMAIN p = Names /\ DOMAIN q = Names
  BY PodFieldsOf
<1>2. /\ p["containers"] = Array(<<container>>)
      /\ p["serviceAccount"] = Str(s.serviceAccountName)
      /\ q["serviceAccount"] = Str(t.serviceAccountName)
      /\ p["serviceAccountName"] = Str(s.serviceAccountName)
      /\ q["serviceAccountName"] = Str(t.serviceAccountName)
      /\ p["volumes"] = Given(ShouldHaveCerts(s), Array(<<CertificateVolume(name)>>))
      /\ q["volumes"] = Given(ShouldHaveCerts(t), Array(<<CertificateVolume(name)>>))
  BY PodFieldsOf
<1> HIDE DEF p, q
<1>3. /\ IsObject(a) /\ \A f \in Names : Field(a, f) = Stands(p[f]) /\ Field(c, f) = Stands(q[f])
      /\ \A f : f \notin Names => Field(a, f) = Zero /\ Field(c, f) = Zero
  BY <1>1, StructFields
<1>4. /\ IsObject(b) /\ \A f : f # "containers" => Field(b, f) = Field(c, f)
      /\ Field(b, "containers") = Array(<<read>>)
  BY TemplateStored DEF IsObject, q
<1> HIDE DEF a, b, c
<1>5. EqualAt1(a, b) <=> \A f : EqualAt2(Field(a, f), Field(b, f))
  BY <1>3, <1>4, ObjectsEqual
<1>6. EqualAt2(Field(a, "containers"), Field(b, "containers")) <=> EqualAt3(container, read)
  <2>1. Field(a, "containers") = Array(<<container>>)
    BY <1>2, <1>3, Nonempty, StandsForItself
  <2> QED BY <1>4, <2>1, ListsEqual
<1>7. /\ EqualAt2(Field(a, "serviceAccount"), Field(b, "serviceAccount"))
           <=> s.serviceAccountName = t.serviceAccountName
      /\ EqualAt2(Field(a, "serviceAccountName"), Field(b, "serviceAccountName"))
           <=> s.serviceAccountName = t.serviceAccountName
  BY <1>2, <1>3, <1>4, TextsEqual
<1>8. EqualAt2(Field(a, "volumes"), Field(b, "volumes"))
        <=> (ShouldHaveCerts(s) <=> ShouldHaveCerts(t))
  <2> DEFINE v == CertificateVolume(name)
  <2>1. Field(a, "volumes") = Given(ShouldHaveCerts(s), Array(<<v>>))
        /\ Field(b, "volumes") = Given(ShouldHaveCerts(t), Array(<<v>>))
    BY <1>2, <1>3, <1>4, StandsForItself
  <2> HIDE DEF v
  <2> QED BY <2>1, GivenEqual
<1>9. EqualAt2(Field(a, "tolerations"), Field(b, "tolerations")) <=> (s.gpu <=> t.gpu)
  <2> DEFINE v == Struct([key |-> Str("nvidia.com/gpu"), effect |-> Str("NoSchedule"),
                          operator |-> Str("Exists")])
  <2>1. Field(a, "tolerations") = Given(s.gpu, Array(<<v>>))
        /\ Field(b, "tolerations") = Given(t.gpu, Array(<<v>>))
    <3>1. p["tolerations"] = Given(s.gpu, Array(<<v>>))
          /\ q["tolerations"] = Given(t.gpu, Array(<<v>>))
      BY PodFieldsVary DEF p, q
    <3> HIDE DEF v
    <3> QED BY <1>3, <1>4, <3>1, StandsForItself
  <2> HIDE DEF v
  <2> QED BY <2>1, GivenEqual
<1>10. ASSUME EqualAt1(a, b)
       PROVE  /\ SameContainers(s, t) /\ s.serviceAccountName = t.serviceAccountName
              /\ ~s.gpu /\ ~t.gpu
  BY <1>5, <1>6, <1>7, <1>8, <1>9, <1>10, ContainersEqual DEF SameContainers
<1>11. ASSUME SameContainers(s, t), s.serviceAccountName = t.serviceAccountName,
              ~s.gpu, ~t.gpu, NEW f
       PROVE  EqualAt2(Field(a, f), Field(b, f))
  <2>1. CASE f \notin Names
    BY <1>3, <1>4, <2>1, SameEqual
  <2>2. CASE f = "containers"
    BY <1>6, <1>11, <2>2, ContainersEqual
  <2>3. CASE f \in {"serviceAccount", "serviceAccountName", "volumes", "tolerations"}
    BY <1>7, <1>8, <1>9, <1>11, <2>3 DEF SameContainers
  <2>4. CASE f \in Names \ {"containers", "serviceAccount", "serviceAccountName", "volumes",
                            "tolerations"}
    <3>1. p[f] = q[f]
      <4>1. CASE f = "automountServiceAccountToken"
        BY <1>11, <4>1, PodFieldsVary DEF p, q
      <4>2. CASE f # "automountServiceAccountToken"
        BY <2>4, <4>2, PodFieldsSame DEF p, q
      <4> QED BY <4>1, <4>2
    <3> QED BY <1>3, <1>4, <2>4, <3>1, SameEqual
  <2> QED BY <2>1, <2>2, <2>3, <2>4
<1>12. EqualAt1(a, b) <=> /\ SameContainers(s, t)
                          /\ s.serviceAccountName = t.serviceAccountName
                          /\ ~s.gpu /\ ~t.gpu
  BY <1>5, <1>10, <1>11
<1> QED BY <1>12 DEF a, b, p

\* Two templates, one of them stored and read back.
LEMMA TemplatesEqualIf ==
  ASSUME NEW s, NEW t, Listed(s), Listed(t), s.flavor \in Text, t.flavor \in Text
  PROVE  TemplatesEqual(s, t) <=> /\ SameContainers(s, t)
                                  /\ s.serviceAccountName = t.serviceAccountName
                                  /\ ~s.gpu /\ ~t.gpu
<1> DEFINE name == NotebookName
           a == PodTemplate(name, s)
           c == PodTemplate(name, t)
           b == StoredTemplate(c)
<1>1. IsObject(a) /\ \A f : f # "spec" => Field(a, f) = Field(c, f)
  <2> DEFINE metadata == Struct([labels |-> Map(MatchLabels(name))])
             p == [metadata |-> metadata, spec |-> Struct(PodFields(name, s))]
             q == [metadata |-> metadata, spec |-> Struct(PodFields(name, t))]
  <2>1. a = Struct(p) /\ c = Struct(q)
    BY DEF PodTemplate
  <2>2. DOMAIN p = {"metadata", "spec"} /\ DOMAIN q = {"metadata", "spec"}
        /\ p["metadata"] = q["metadata"]
    OBVIOUS
  <2> HIDE DEF p, q, a, c
  <2> QED BY <2>1, <2>2, StructFields
<1>2. /\ IsObject(b) /\ \A f : f # "spec" => Field(b, f) = Field(c, f)
      /\ Field(a, "spec") = Struct(PodFields(name, s))
  <2>1. TemplateKept(c) /\ Field(a, "spec") = Struct(PodFields(name, s))
    BY TemplateStored
  <2> HIDE DEF a, c
  <2> QED BY <2>1 DEF TemplateKept, IsObject
<1>3. EqualAt1(Field(a, "spec"), Field(b, "spec")) <=>
        /\ SameContainers(s, t)
        /\ s.serviceAccountName = t.serviceAccountName
        /\ ~s.gpu /\ ~t.gpu
  BY <1>2, PodsEqual
<1>4. TemplatesEqual(s, t) <=> EqualAt0(a, b)
  BY DEF TemplatesEqual, DeeplyEqual
<1> HIDE DEF a, b, c
<1>5. EqualAt0(a, b) <=> EqualAt1(Field(a, "spec"), Field(b, "spec"))
  BY <1>1, <1>2, ObjectsEqual, SameEqual
<1> QED BY <1>3, <1>4, <1>5

\* What NotebookSpec says of the comparison.
LEMMA SameTemplateIf ==
  ASSUME NEW s, NEW t
  PROVE  SameTemplate(Template(s), Stored(Template(t))) <=>
           /\ SameContainers(s, t)
           /\ s.serviceAccountName = t.serviceAccountName
           /\ ~s.gpu /\ ~t.gpu
<1> DEFINE gpu(u, format) == IF u.gpu THEN format ELSE "off"
           Bare(u, format) ==
             [flavor |-> u.flavor, gpu |-> gpu(u, format), packages |-> <<>>,
              password |-> IsSet(u.password), certs |-> ShouldHaveCerts(u),
              serviceAccountName |-> u.serviceAccountName]
           Full(u, format) ==
             [flavor |-> u.flavor, gpu |-> gpu(u, format), packages |-> u.packages,
              password |-> IsSet(u.password), certs |-> ShouldHaveCerts(u),
              serviceAccountName |-> u.serviceAccountName]
           a == Full(s, "DecimalExponent")
           b == Full(t, "DecimalSI")
<1>1. Template(s) = a
  BY DEF Template
<1>2. Stored(Template(t)) = b
  <2> DEFINE plain == gpu(t, "DecimalExponent")
             read == IF plain = "off" THEN "off" ELSE "DecimalSI"
  <2>1. Template(t) = Full(t, "DecimalExponent")
    BY DEF Template
  <2>2. read = gpu(t, "DecimalSI")
    OBVIOUS
  <2>3. Stored(Template(t)) = [Full(t, "DecimalExponent") EXCEPT !.gpu = read]
    BY <2>1 DEF Stored
  <2> HIDE DEF plain, read
  <2>4. Stored(Template(t)) = [flavor |-> t.flavor, gpu |-> read, packages |-> t.packages,
                               password |-> IsSet(t.password), certs |-> ShouldHaveCerts(t),
                               serviceAccountName |-> t.serviceAccountName]
    BY <2>3
  <2> QED BY <2>2, <2>4
<1>3. [a EXCEPT !.packages = <<>>] = Bare(s, "DecimalExponent")
  <2> HIDE DEF gpu
  <2> QED OBVIOUS
<1>4. [b EXCEPT !.packages = <<>>] = Bare(t, "DecimalSI")
  <2> HIDE DEF gpu
  <2> QED OBVIOUS
<1>5. a.packages = s.packages /\ b.packages = t.packages
  OBVIOUS
<1>6. Bare(s, "DecimalExponent") = Bare(t, "DecimalSI") <=>
        /\ s.flavor = t.flavor
        /\ gpu(s, "DecimalExponent") = gpu(t, "DecimalSI")
        /\ IsSet(s.password) = IsSet(t.password)
        /\ ShouldHaveCerts(s) = ShouldHaveCerts(t)
        /\ s.serviceAccountName = t.serviceAccountName
  <2> HIDE DEF gpu
  <2> QED OBVIOUS
<1>7. gpu(s, "DecimalExponent") = gpu(t, "DecimalSI") <=> ~s.gpu /\ ~t.gpu
  OBVIOUS
<1>8. /\ IsSet(s.password) = IsSet(t.password) <=> (IsSet(s.password) <=> IsSet(t.password))
      /\ ShouldHaveCerts(s) = ShouldHaveCerts(t) <=> (ShouldHaveCerts(s) <=> ShouldHaveCerts(t))
  BY DEF IsSet, ShouldHaveCerts
<1>9. SameTemplate(a, b) <=> /\ Bare(s, "DecimalExponent") = Bare(t, "DecimalSI")
                             /\ Len(s.packages) = Len(t.packages)
  <2> HIDE DEF a, b, Bare
  <2> QED BY <1>3, <1>4, <1>5 DEF SameTemplate
<1> HIDE DEF a, b, Bare, gpu
<1> QED BY <1>1, <1>2, <1>6, <1>7, <1>8, <1>9 DEF SameContainers
-----------------------------------------------------------------------------
(* The invariant: a specification has a list of packages and a flavor that *)
(* is a text, and the one that the StatefulSet was made from has its        *)
(* defaults.                                                               *)

Regular(s) == s.flavor \in Optional(Text) /\ Listed(s)

Comparable ==
  /\ Intact
  /\ document # Zero => Regular(Decode(document))
  /\ made # Nil => Regular(made) /\ made.flavor # Nil

\* What is decoded of a list has as many packages.
LEMMA DecodedRegular ==
  ASSUME NEW d,
         d.spec # Zero =>
           /\ SpecAdmitted(d.spec)
           /\ IsList(Field(d.spec, "packages"))
           /\ "string" \in DOMAIN Field(d.spec, "flavor") =>
                Field(d.spec, "flavor").string \in Text
  PROVE  Regular(Decode(d))
<1> DEFINE spec == SpecOf(d)
           words == Value(Field(spec, "packages"), <<>>, LAMBDA v : v.array)
           flavor == Value(Field(spec, "flavor"), Nil, LAMBDA v : v.string)
           packages == [i \in DOMAIN words |-> Cut(words[i].string)]
           s == Decode(d)
<1>1. s.packages = packages /\ s.flavor = flavor
  BY DEF Decode
<1>2. Len(words) \in Nat /\ DOMAIN words = 1..Len(words)
  <2>1. CASE Field(spec, "packages") = Zero
    <3>1. words = <<>>
      BY <2>1 DEF Value
    <3> HIDE DEF words
    <3> QED BY <3>1
  <2>2. CASE Field(spec, "packages") # Zero
    <3>1. spec = d.spec /\ d.spec # Zero /\ Has(d.spec, "packages")
      BY <2>2 DEF SpecOf, Field, Has, Empty
    <3>2. words = Field(d.spec, "packages").array /\ "array" \in DOMAIN Field(d.spec, "packages")
      BY <2>2, <3>1 DEF Value, SpecAdmitted
    <3> HIDE DEF words
    <3>3. words \in Seq({words[i] : i \in DOMAIN words})
      BY <3>1, <3>2 DEF IsList
    <3> QED BY <3>3
  <2> QED BY <2>1, <2>2
<1>3. flavor \in Optional(Text)
  <2>1. CASE Field(spec, "flavor") = Zero
    BY <2>1 DEF Value, Optional
  <2>2. CASE Field(spec, "flavor") # Zero
    <3>1. spec = d.spec /\ d.spec # Zero /\ Has(d.spec, "flavor")
      BY <2>2 DEF SpecOf, Field, Has, Empty
    <3> QED BY <2>2, <3>1 DEF Value, SpecAdmitted, TextFields, Optional
  <2> QED BY <2>1, <2>2
<1> HIDE DEF words, flavor, s
<1>4. Len(packages) = Len(words) /\ DOMAIN packages = 1..Len(words)
      /\ packages = [i \in DOMAIN packages |-> packages[i]]
  BY <1>2
<1> HIDE DEF packages
<1>5. Listed(s)
  BY <1>1, <1>2, <1>4 DEF Listed
<1> QED BY <1>1, <1>3, <1>5 DEF Regular, s

\* The defaults give a flavor that is a text, and leave the packages alone.
LEMMA DefaultsRegular ==
  ASSUME NEW s, IsSpec(s), Regular(s)
  PROVE  Regular(SetDefaults(s)) /\ SetDefaults(s).flavor \in Text
<1>1. SetDefaults(s).packages = s.packages /\ Complete(SetDefaults(s))
  BY Completed
<1>2. SetDefaults(s).flavor = OrDefault(s.flavor, DefaultFlavor)
  <2>1. DOMAIN s = {"flavor", "gpu", "host", "ingress", "packages", "password",
                    "serviceAccountName", "tls"}
    BY DEF IsSpec
  <2> QED BY <2>1 DEF SetDefaults
<1>3. SetDefaults(s).flavor \in Text
  BY <1>2, TextAssumption DEF Regular, Optional, OrDefault
<1> QED BY <1>1, <1>3 DEF Regular, Listed, Optional

\* What is decoded of a sound document can be written.
LEMMA SoundSpec ==
  ASSUME Comparable, document # Zero
  PROVE  IsSpec(Decode(document)) /\ Regular(Decode(document))
BY Decoded DEF Comparable, Intact, Sound

LEMMA ComparableInit == Init => Comparable
BY IntactInit DEF Init, Comparable

\* What the operator does to the document and to what it has made.
LEMMA SyncComparable ==
  ASSUME Comparable, Sync
  PROVE  Comparable'
<1> DEFINE s == Decode(document)
<1>1. document # Zero
  BY DEF Sync, SyncInvalid, SyncDefaults, SyncReconcile, Synced
<1>2. IsSpec(s) /\ Regular(s)
  BY <1>1, SoundSpec
<1>3. Intact'
  BY SyncIntact DEF Comparable
<1>4. Regular(Decode(document'))
  <2>1. CASE document'.spec = document.spec
    <3>1. SpecOf(document') = SpecOf(document)
      BY <2>1 DEF SpecOf
    <3>2. Decode(document') = Decode(document)
      BY <3>1 DEF Decode
    <3> QED BY <1>2, <3>2
  <2>2. CASE Decode(document') = Wanted
    BY <1>2, <2>2, DefaultsRegular DEF Wanted
  <2> QED BY <2>1, <2>2, SyncIntact DEF Comparable
<1>5. made' # Nil => Regular(made') /\ made'.flavor # Nil
  <2>1. CASE made' = made
    BY <2>1 DEF Comparable
  <2>2. CASE made' = s /\ SetDefaults(s) = s
    <3>1. s.flavor \in Text
      BY <1>2, <2>2, DefaultsRegular
    <3> QED BY <1>2, <2>2, <3>1, TextAssumption
  <2> QED BY <2>1, <2>2 DEF Sync, SyncInvalid, SyncDefaults, SyncReconcile
<1> QED BY <1>3, <1>4, <1>5 DEF Comparable

\* The invariant is inductive.
LEMMA ComparableNext ==
  ASSUME Comparable, [Next]_vars
  PROVE  Comparable'
<1>1. Intact'
  BY IntactNext DEF Comparable
<1>2. CASE Sync
  BY <1>2, SyncComparable
<1>3. ASSUME NEW spec \in UserSpecs, Submit(spec)
      PROVE  Comparable'
  <2> DEFINE status == IF document = Zero THEN Zero ELSE document.status
             d == [spec |-> spec, status |-> status]
  <2>1. /\ UNCHANGED made
        /\ document' = document \/ (document' = d /\ Admitted(d))
    BY <1>3 DEF Submit
  <2>2. CASE document' = document
    BY <1>1, <2>1, <2>2 DEF Comparable
  <2>3. CASE document' = d /\ Admitted(d)
    <3>1. d.spec = spec /\ (spec # Zero => SpecAdmitted(spec))
      BY <2>3, AdmittedParts DEF IsDocument
    <3>2. spec # Zero =>
            /\ IsList(Field(spec, "packages"))
            /\ "string" \in DOMAIN Field(spec, "flavor") => Field(spec, "flavor").string \in Text
      BY <3>1, ListsAssumption, FlavorsAssumption DEF SpecAdmitted
    <3> HIDE DEF d
    <3>3. Regular(Decode(d))
      BY <3>1, <3>2, DecodedRegular
    <3> QED BY <1>1, <2>1, <2>3, <3>3 DEF Comparable
  <2> QED BY <2>1, <2>2, <2>3
<1>4. CASE UNCHANGED vars
  BY <1>1, <1>4 DEF vars, Comparable
<1> QED BY <1>2, <1>3, <1>4 DEF Next

LEMMA AlwaysComparable == Spec => []Comparable
BY ComparableInit, ComparableNext, PTL DEF Spec

\* For any two specifications that follow each other the comparison, down to its
\* tenth level, finds what NotebookSpec says it finds: a difference in flavor, in
\* service account, in whether there is a password or a certificate, in the
\* number of packages; with a GPU always one.  What CalculateStatefulSet leaves
\* to the API server is nothing that the comparison would see.
THEOREM EditsAlwaysFound == Spec => []ComparisonFindsEdits
<1>1. Comparable => ComparisonFindsEdits
  <2> SUFFICES ASSUME Comparable, Servable, made # Nil
               PROVE  TemplatesEqual(Wanted, made) <=>
                        SameTemplate(Template(Wanted), Stored(Template(made)))
    BY DEF ComparisonFindsEdits
  <2>1. document # Zero
    BY DEF Servable, Synced
  <2>2. Listed(Wanted) /\ Wanted.flavor \in Text
    BY <2>1, SoundSpec, DefaultsRegular DEF Wanted, Regular
  <2>3. Listed(made) /\ made.flavor \in Text
    BY DEF Comparable, Regular, Optional
  <2> QED BY <2>2, <2>3, TemplatesEqualIf, SameTemplateIf
<1> QED BY <1>1, AlwaysComparable, PTL
-----------------------------------------------------------------------------
(* The schemas, level by level *)

\* How values are encoded.
LEMMA EncodedPlain ==
  /\ \A t : Encoded(Str(t)) = Str(t)
  /\ \A n : Encoded(Int(n)) = Int(n) /\ Encoded(Ptr(Int(n))) = Int(n)
  /\ \A b : Encoded(Bool(b)) = Bool(b) /\ Encoded(Ptr(Bool(b))) = Bool(b)
  /\ \A f : Encoded(Map(f)) = Map(f)
  /\ \A elements : Encoded(Array(elements)) = Array(elements)
<1>1. \A v : DOMAIN Ptr(v) = {"ptr"} /\ Ptr(v).ptr = v
  BY DEF Ptr
<1>2. \A t : DOMAIN Str(t) = {"string"}
  BY DEF Str
<1>3. \A n : DOMAIN Int(n) = {"integer"}
  BY DEF Int
<1>4. \A b : DOMAIN Bool(b) = {"boolean"}
  BY DEF Bool
<1>5. \A f : DOMAIN Map(f) = {"map"}
  BY DEF Map
<1>6. \A elements : DOMAIN Array(elements) = {"array"}
  BY DEF Array
<1> QED BY <1>1, <1>2, <1>3, <1>4, <1>5, <1>6 DEF Encoded

\* What a struct holds.
LEMMA StructOf ==
  ASSUME NEW fields
  PROVE  LET v == Struct(fields) IN
         /\ DOMAIN v = {"object"}
         /\ DOMAIN v.object = {f \in DOMAIN fields : NotZero(fields[f])}
         /\ \A f \in DOMAIN v.object : v.object[f] = fields[f]
<1> DEFINE v == Struct(fields)
<1>1. DOMAIN v = {"object"} /\ DOMAIN v.object = {f \in DOMAIN fields : NotZero(fields[f])}
  BY ObjectOf
<1>2. ASSUME NEW f \in DOMAIN v.object
      PROVE  v.object[f] = fields[f]
  <2>1. f \in DOMAIN fields /\ NotZero(fields[f])
    BY <1>1
  <2> QED BY <2>1, StructField
<1> QED BY <1>1, <1>2

\* A struct that embeds nothing is encoded as it is.
LEMMA EncodedStruct ==
  ASSUME NEW fields, "inline" \notin DOMAIN fields
  PROVE  /\ Encoded(Struct(fields)) = Struct(fields)
         /\ Encoded(Ptr(Struct(fields))) = Struct(fields)
<1> DEFINE v == Struct(fields)
<1>1. DOMAIN v = {"object"} /\ v = [object |-> v.object] /\ ~Has(v, "inline")
  BY ObjectOf DEF Has
<1>2. DOMAIN Ptr(v) = {"ptr"} /\ Ptr(v).ptr = v
  BY DEF Ptr
<1> HIDE DEF v
<1>3. Fields(v) = v.object
  BY <1>1 DEF Fields
<1> QED BY <1>1, <1>2, <1>3 DEF Encoded, v

\* What conforms at one level conforms at those above it.
LEMMA Rises ==
  ASSUME NEW schema, NEW v
  PROVE
    /\ Conforms1(schema, v) => Conforms2(schema, v)
    /\ Conforms2(schema, v) => Conforms3(schema, v)
    /\ Conforms3(schema, v) => Conforms4(schema, v)
    /\ Conforms4(schema, v) => Conforms5(schema, v)
    /\ Conforms5(schema, v) => Conforms6(schema, v)
    /\ Conforms6(schema, v) => Conforms7(schema, v)
    /\ Conforms7(schema, v) => Conforms8(schema, v)
    /\ Conforms8(schema, v) => Conforms(schema, v)
<1>1. ASSUME NEW s, NEW w, Conforms1(s, w)
      PROVE  Conforms2(s, w)
  BY <1>1 DEF Conforms1, Conforms2, Allows, Admits, Fits, Contents
<1>2. ASSUME NEW s, NEW w, Conforms2(s, w)
      PROVE  Conforms3(s, w)
  BY <1>1, <1>2 DEF Conforms2, Conforms3, Allows, Admits, Fits, Contents
<1>3. ASSUME NEW s, NEW w, Conforms3(s, w)
      PROVE  Conforms4(s, w)
  BY <1>2, <1>3 DEF Conforms3, Conforms4, Allows, Admits, Fits, Contents
<1>4. ASSUME NEW s, NEW w, Conforms4(s, w)
      PROVE  Conforms5(s, w)
  BY <1>3, <1>4 DEF Conforms4, Conforms5, Allows, Admits, Fits, Contents
<1>5. ASSUME NEW s, NEW w, Conforms5(s, w)
      PROVE  Conforms6(s, w)
  BY <1>4, <1>5 DEF Conforms5, Conforms6, Allows, Admits, Fits, Contents
<1>6. ASSUME NEW s, NEW w, Conforms6(s, w)
      PROVE  Conforms7(s, w)
  BY <1>5, <1>6 DEF Conforms6, Conforms7, Allows, Admits, Fits, Contents
<1>7. ASSUME NEW s, NEW w, Conforms7(s, w)
      PROVE  Conforms8(s, w)
  BY <1>6, <1>7 DEF Conforms7, Conforms8, Allows, Admits, Fits, Contents
<1>8. ASSUME NEW s, NEW w, Conforms8(s, w)
      PROVE  Conforms(s, w)
  BY <1>7, <1>8 DEF Conforms8, Conforms, Allows, Admits, Fits, Contents
<1> QED BY <1>1, <1>2, <1>3, <1>4, <1>5, <1>6, <1>7, <1>8

\* A text, a number or a boolean conforms to its schema at every level, and
\* anything to the one that allows everything.
PlainIn(Inside(_, _)) ==
  /\ \A t : Inside(API!String, Str(t))
  /\ \A n : Inside(API!Integer, Int(n)) /\ Inside(API!Integer, Ptr(Int(n)))
  /\ \A b : Inside(API!Boolean, Bool(b)) /\ Inside(API!Boolean, Ptr(Bool(b)))
  /\ \A v : Inside(API!Any, v)

LEMMA PlainConforms ==
  /\ PlainIn(Conforms1)
  /\ PlainIn(Conforms2)
  /\ PlainIn(Conforms3)
  /\ PlainIn(Conforms4)
  /\ PlainIn(Conforms5)
  /\ PlainIn(Conforms6)
  /\ PlainIn(Conforms7)
  /\ PlainIn(Conforms8)
<1>1. \A t : "string" \in DOMAIN Encoded(Str(t))
  <2>1. \A t : "string" \in DOMAIN Str(t)
    BY DEF Str
  <2> QED BY <2>1, EncodedPlain
<1>2. \A n : /\ "integer" \in DOMAIN Encoded(Int(n))
             /\ "integer" \in DOMAIN Encoded(Ptr(Int(n)))
  <2>1. \A n : "integer" \in DOMAIN Int(n)
    BY DEF Int
  <2> QED BY <2>1, EncodedPlain
<1>3. \A b : /\ "boolean" \in DOMAIN Encoded(Bool(b))
             /\ "boolean" \in DOMAIN Encoded(Ptr(Bool(b)))
  <2>1. \A b : "boolean" \in DOMAIN Bool(b)
    BY DEF Bool
  <2> QED BY <2>1, EncodedPlain
<1>4. /\ API!String.type = "string" /\ API!Integer.type = "integer"
      /\ API!Boolean.type = "boolean" /\ API!Any.type = "any"
  BY DEF API!String, API!Integer, API!Boolean, API!Any
<1>5. PlainIn(Conforms1)
  BY <1>1, <1>2, <1>3, <1>4 DEF PlainIn, Conforms1, Allows, Known, Admits, Fits, Contents
<1>6. PlainIn(Conforms2)
  BY <1>5, Rises DEF PlainIn
<1>7. PlainIn(Conforms3)
  BY <1>6, Rises DEF PlainIn
<1>8. PlainIn(Conforms4)
  BY <1>7, Rises DEF PlainIn
<1>9. PlainIn(Conforms5)
  BY <1>8, Rises DEF PlainIn
<1>10. PlainIn(Conforms6)
  BY <1>9, Rises DEF PlainIn
<1>11. PlainIn(Conforms7)
  BY <1>10, Rises DEF PlainIn
<1>12. PlainIn(Conforms8)
  BY <1>11, Rises DEF PlainIn
<1> QED BY <1>5, <1>6, <1>7, <1>8, <1>9, <1>10, <1>11, <1>12

\* The same, for a field of a struct.
LEMMA PlainFields ==
  /\ \A t : Conforms1(API!String, Str(t))
  /\ \A n : Conforms1(API!Integer, Int(n)) /\ Conforms1(API!Integer, Ptr(Int(n)))
  /\ \A b : Conforms1(API!Boolean, Bool(b)) /\ Conforms1(API!Boolean, Ptr(Bool(b)))
  /\ \A v : Conforms1(API!Any, v)
<1>1. PlainIn(Conforms1)
  BY PlainConforms
<1> QED BY <1>1 DEF PlainIn

\* The fields of a struct that are there conform to the schemas that an object's
\* schema has for them, and none that it requires is missing.
Suits(schema, fields) ==
  /\ schema.type = "object"
  /\ DOMAIN fields \subseteq DOMAIN schema.properties
  /\ \A f \in schema.required : f \in DOMAIN fields /\ NotZero(fields[f])
  /\ "inline" \notin DOMAIN fields

LEMMA StructConforms ==
  ASSUME NEW schema, NEW fields, Suits(schema, fields)
  PROVE
    /\ (\A f \in DOMAIN fields :
          NotZero(fields[f]) => Conforms1(schema.properties[f], fields[f])) =>
            Conforms2(schema, Struct(fields)) /\ Conforms2(schema, Ptr(Struct(fields)))
    /\ (\A f \in DOMAIN fields :
          NotZero(fields[f]) => Conforms2(schema.properties[f], fields[f])) =>
            Conforms3(schema, Struct(fields)) /\ Conforms3(schema, Ptr(Struct(fields)))
    /\ (\A f \in DOMAIN fields :
          NotZero(fields[f]) => Conforms3(schema.properties[f], fields[f])) =>
            Conforms4(schema, Struct(fields)) /\ Conforms4(schema, Ptr(Struct(fields)))
    /\ (\A f \in DOMAIN fields :
          NotZero(fields[f]) => Conforms4(schema.properties[f], fields[f])) =>
            Conforms5(schema, Struct(fields)) /\ Conforms5(schema, Ptr(Struct(fields)))
    /\ (\A f \in DOMAIN fields :
          NotZero(fields[f]) => Conforms5(schema.properties[f], fields[f])) =>
            Conforms6(schema, Struct(fields)) /\ Conforms6(schema, Ptr(Struct(fields)))
    /\ (\A f \in DOMAIN fields :
          NotZero(fields[f]) => Conforms6(schema.properties[f], fields[f])) =>
            Conforms7(schema, Struct(fields)) /\ Conforms7(schema, Ptr(Struct(fields)))
    /\ (\A f \in DOMAIN fields :
          NotZero(fields[f]) => Conforms7(schema.properties[f], fields[f])) =>
            Conforms8(schema, Struct(fields)) /\ Conforms8(schema, Ptr(Struct(fields)))
    /\ (\A f \in DOMAIN fields :
          NotZero(fields[f]) => Conforms8(schema.properties[f], fields[f])) =>
            Conforms(schema, Struct(fields)) /\ Conforms(schema, Ptr(Struct(fields)))
<1> DEFINE v == Struct(fields)
<1>1. Encoded(v) = v /\ Encoded(Ptr(v)) = v
  BY EncodedStruct DEF Suits
<1>2. /\ DOMAIN v = {"object"}
      /\ DOMAIN v.object = {f \in DOMAIN fields : NotZero(fields[f])}
      /\ \A f \in DOMAIN v.object : v.object[f] = fields[f]
  BY StructOf
<1> HIDE DEF v
<1>3. Known(schema, v) /\ schema.required \subseteq DOMAIN v.object
  BY <1>2 DEF Known, Suits
<1>4. ASSUME \A f \in DOMAIN fields : NotZero(fields[f]) => Conforms1(schema.properties[f], fields[f])
      PROVE  Conforms2(schema, v) /\ Conforms2(schema, Ptr(v))
  BY <1>1, <1>2, <1>3, <1>4 DEF Conforms2, Allows, Admits, Fits, Contents, Suits
<1>5. ASSUME \A f \in DOMAIN fields : NotZero(fields[f]) => Conforms2(schema.properties[f], fields[f])
      PROVE  Conforms3(schema, v) /\ Conforms3(schema, Ptr(v))
  BY <1>1, <1>2, <1>3, <1>5 DEF Conforms3, Allows, Admits, Fits, Contents, Suits
<1>6. ASSUME \A f \in DOMAIN fields : NotZero(fields[f]) => Conforms3(schema.properties[f], fields[f])
      PROVE  Conforms4(schema, v) /\ Conforms4(schema, Ptr(v))
  BY <1>1, <1>2, <1>3, <1>6 DEF Conforms4, Allows, Admits, Fits, Contents, Suits
<1>7. ASSUME \A f \in DOMAIN fields : NotZero(fields[f]) => Conforms4(schema.properties[f], fields[f])
      PROVE  Conforms5(schema, v) /\ Conforms5(schema, Ptr(v))
  BY <1>1, <1>2, <1>3, <1>7 DEF Conforms5, Allows, Admits, Fits, Contents, Suits
<1>8. ASSUME \A f \in DOMAIN fields : NotZero(fields[f]) => Conforms5(schema.properties[f], fields[f])
      PROVE  Conforms6(schema, v) /\ Conforms6(schema, Ptr(v))
  BY <1>1, <1>2, <1>3, <1>8 DEF Conforms6, Allows, Admits, Fits, Contents, Suits
<1>9. ASSUME \A f \in DOMAIN fields : NotZero(fields[f]) => Conforms6(schema.properties[f], fields[f])
      PROVE  Conforms7(schema, v) /\ Conforms7(schema, Ptr(v))
  BY <1>1, <1>2, <1>3, <1>9 DEF Conforms7, Allows, Admits, Fits, Contents, Suits
<1>10. ASSUME \A f \in DOMAIN fields : NotZero(fields[f]) => Conforms7(schema.properties[f], fields[f])
      PROVE  Conforms8(schema, v) /\ Conforms8(schema, Ptr(v))
  BY <1>1, <1>2, <1>3, <1>10 DEF Conforms8, Allows, Admits, Fits, Contents, Suits
<1>11. ASSUME \A f \in DOMAIN fields : NotZero(fields[f]) => Conforms8(schema.properties[f], fields[f])
      PROVE  Conforms(schema, v) /\ Conforms(schema, Ptr(v))
  BY <1>1, <1>2, <1>3, <1>11 DEF Conforms, Allows, Admits, Fits, Contents, Suits
<1> QED BY <1>4, <1>5, <1>6, <1>7, <1>8, <1>9, <1>10, <1>11 DEF v

\* A list conforms if its elements do.
LEMMA ListConforms ==
  ASSUME NEW items, NEW elements
  PROVE
    /\ (\A i \in DOMAIN elements : Conforms1(items, elements[i])) =>
         Conforms2(API!ListOf(items), Array(elements))
    /\ (\A i \in DOMAIN elements : Conforms2(items, elements[i])) =>
         Conforms3(API!ListOf(items), Array(elements))
    /\ (\A i \in DOMAIN elements : Conforms3(items, elements[i])) =>
         Conforms4(API!ListOf(items), Array(elements))
    /\ (\A i \in DOMAIN elements : Conforms4(items, elements[i])) =>
         Conforms5(API!ListOf(items), Array(elements))
    /\ (\A i \in DOMAIN elements : Conforms5(items, elements[i])) =>
         Conforms6(API!ListOf(items), Array(elements))
    /\ (\A i \in DOMAIN elements : Conforms6(items, elements[i])) =>
         Conforms7(API!ListOf(items), Array(elements))
<1> DEFINE v == Array(elements)
           schema == API!ListOf(items)
<1>1. Encoded(v) = v /\ DOMAIN v = {"array"} /\ v.array = elements
  BY EncodedPlain DEF Array
<1>2. schema.type = "array" /\ schema.items = items
  BY DEF API!ListOf
<1> HIDE DEF v, schema
<1>3. (\A i \in DOMAIN elements : Conforms1(items, elements[i])) => Conforms2(schema, v)
  BY <1>1, <1>2 DEF Conforms2, Allows, Admits, Fits, Contents, Known
<1>4. (\A i \in DOMAIN elements : Conforms2(items, elements[i])) => Conforms3(schema, v)
  BY <1>1, <1>2 DEF Conforms3, Allows, Admits, Fits, Contents, Known
<1>5. (\A i \in DOMAIN elements : Conforms3(items, elements[i])) => Conforms4(schema, v)
  BY <1>1, <1>2 DEF Conforms4, Allows, Admits, Fits, Contents, Known
<1>6. (\A i \in DOMAIN elements : Conforms4(items, elements[i])) => Conforms5(schema, v)
  BY <1>1, <1>2 DEF Conforms5, Allows, Admits, Fits, Contents, Known
<1>7. (\A i \in DOMAIN elements : Conforms5(items, elements[i])) => Conforms6(schema, v)
  BY <1>1, <1>2 DEF Conforms6, Allows, Admits, Fits, Contents, Known
<1>8. (\A i \in DOMAIN elements : Conforms6(items, elements[i])) => Conforms7(schema, v)
  BY <1>1, <1>2 DEF Conforms7, Allows, Admits, Fits, Contents, Known
<1> QED BY <1>3, <1>4, <1>5, <1>6, <1>7, <1>8 DEF v, schema

LEMMA OneConforms ==
  ASSUME NEW items, NEW v
  PROVE
    /\ Conforms2(items, v) => Conforms3(API!ListOf(items), Array(<<v>>))
    /\ Conforms4(items, v) => Conforms5(API!ListOf(items), Array(<<v>>))
    /\ Conforms5(items, v) => Conforms6(API!ListOf(items), Array(<<v>>))
    /\ Conforms6(items, v) => Conforms7(API!ListOf(items), Array(<<v>>))
<1> DEFINE one == <<v>>
<1>1. DOMAIN one = {1} /\ one[1] = v
  OBVIOUS
<1>2. \A i \in DOMAIN one : one[i] = v
  BY <1>1
<1> HIDE DEF one
<1>3. Conforms2(items, v) => Conforms3(API!ListOf(items), Array(one))
  BY <1>2, ListConforms
<1>4. Conforms4(items, v) => Conforms5(API!ListOf(items), Array(one))
  BY <1>2, ListConforms
<1>5. Conforms5(items, v) => Conforms6(API!ListOf(items), Array(one))
  BY <1>2, ListConforms
<1>6. Conforms6(items, v) => Conforms7(API!ListOf(items), Array(one))
  BY <1>2, ListConforms
<1> QED BY <1>3, <1>4, <1>5, <1>6 DEF one

\* A map conforms if its values do.
LEMMA MapConforms ==
  ASSUME NEW values, NEW f, \A k \in DOMAIN f : Conforms1(values, f[k])
  PROVE  Conforms2(API!MapOf(values), Map(f))
<1> DEFINE v == Map(f)
           schema == API!MapOf(values)
<1>1. Encoded(v) = v /\ DOMAIN v = {"map"} /\ v.map = f
  BY EncodedPlain DEF Map
<1>2. schema.type = "map" /\ schema.values = values
  BY DEF API!MapOf
<1> HIDE DEF v, schema
<1>3. Conforms2(schema, v)
  BY <1>1, <1>2 DEF Conforms2, Allows, Admits, Fits, Contents, Known
<1> QED BY <1>3 DEF v, schema
-----------------------------------------------------------------------------
(* The resources and their schemas *)

\* A map of texts, like labels, annotations and the data of a secret.
TextMap(m) == \A k \in DOMAIN m : \E t : m[k] = Str(t)

LEMMA TextMaps ==
  /\ \A k, t : TextMap(k :> Str(t))
  /\ TextMap(<<>>)
  /\ \A m, n : TextMap(m) /\ TextMap(n) => TextMap(m @@ n)
  /\ \A m : TextMap(m) => Conforms2(API!MapOf(API!String), Map(m))
<1>1. \A k, t : TextMap(k :> Str(t))
  BY DEF TextMap, :>
<1>2. TextMap(<<>>)
  BY DEF TextMap
<1>3. ASSUME NEW m, NEW n, TextMap(m), TextMap(n)
      PROVE  TextMap(m @@ n)
  <2>1. /\ DOMAIN (m @@ n) = DOMAIN m \cup DOMAIN n
        /\ \A x \in DOMAIN (m @@ n) : (m @@ n)[x] = IF x \in DOMAIN m THEN m[x] ELSE n[x]
    BY DEF @@
  <2> QED BY <1>3, <2>1 DEF TextMap
<1>4. ASSUME NEW m, TextMap(m)
      PROVE  Conforms2(API!MapOf(API!String), Map(m))
  <2>1. \A k \in DOMAIN m : Conforms1(API!String, m[k])
    BY <1>4, PlainConforms DEF TextMap, PlainIn
  <2> QED BY <2>1, MapConforms
<1> QED BY <1>1, <1>2, <1>3, <1>4

LEMMA LabelsConform ==
  ASSUME NEW name
  PROVE  TextMap(MatchLabels(name)) /\ TextMap(Labels(name))
BY TextMaps DEF MatchLabels, Labels

\* The owner has a kind, whatever the lister returned.
LEMMA OwnerConforms ==
  ASSUME NEW name, name # "", NEW kind
  PROVE  Conforms2(API!OwnerReference, AsOwner(name, kind))
<1> DEFINE schema == API!OwnerReference
           fields == [apiVersion |-> Str("jupyter.squat.ai/v1"), kind |-> Typed(kind),
                      name |-> Str(name), uid |-> Str("uid"),
                      blockOwnerDeletion |-> Ptr(Bool(TRUE)), controller |-> Ptr(Bool(TRUE))]
           Names == {"apiVersion", "kind", "name", "uid", "blockOwnerDeletion", "controller"}
<1>1. /\ schema.type = "object" /\ schema.required = {"apiVersion", "kind", "name", "uid"}
      /\ DOMAIN schema.properties = Names
      /\ schema.properties["apiVersion"] = API!String /\ schema.properties["kind"] = API!String
      /\ schema.properties["name"] = API!String /\ schema.properties["uid"] = API!String
      /\ schema.properties["blockOwnerDeletion"] = API!Boolean /\ schema.properties["controller"] = API!Boolean
  BY DEF API!OwnerReference, API!Object
<1>2. \E t : t # "" /\ Typed(kind) = Str(t)
  <2>1. CASE kind = ""
    <3>1. "Notebook" # "" /\ Typed(kind) = Str("Notebook")
      BY <2>1 DEF Typed
    <3> QED BY <3>1
  <2>2. CASE kind # ""
    BY <2>2 DEF Typed
  <2> QED BY <2>1, <2>2
<1>3. /\ DOMAIN fields = Names
      /\ fields["apiVersion"] = Str("jupyter.squat.ai/v1") /\ fields["kind"] = Typed(kind)
      /\ fields["name"] = Str(name) /\ fields["uid"] = Str("uid")
      /\ fields["blockOwnerDeletion"] = Ptr(Bool(TRUE))
      /\ fields["controller"] = Ptr(Bool(TRUE))
  OBVIOUS
<1>4. AsOwner(name, kind) = Struct(fields)
  BY DEF AsOwner
<1> HIDE DEF schema, fields
<1>5. /\ NotZero(fields["apiVersion"]) /\ NotZero(fields["kind"])
      /\ NotZero(fields["name"]) /\ NotZero(fields["uid"])
  BY <1>2, <1>3, Nonempty
<1>6. Suits(schema, fields)
  BY <1>1, <1>3, <1>5 DEF Suits
<1>7. \A f \in DOMAIN fields : Conforms1(schema.properties[f], fields[f])
  <2>1. /\ Conforms1(API!String, Str("jupyter.squat.ai/v1")) /\ Conforms1(API!String, Str(name))
        /\ Conforms1(API!String, Str("uid"))
    BY PlainFields
  <2>2. Conforms1(API!String, Typed(kind))
    BY <1>2, PlainFields
  <2>3. Conforms1(API!Boolean, Ptr(Bool(TRUE)))
    BY PlainFields
  <2>4. /\ Conforms1(schema.properties["apiVersion"], fields["apiVersion"])
        /\ Conforms1(schema.properties["name"], fields["name"])
        /\ Conforms1(schema.properties["uid"], fields["uid"])
    BY <1>1, <1>3, <2>1
  <2>5. Conforms1(schema.properties["kind"], fields["kind"])
    BY <1>1, <1>3, <2>2
  <2>6. /\ Conforms1(schema.properties["blockOwnerDeletion"], fields["blockOwnerDeletion"])
        /\ Conforms1(schema.properties["controller"], fields["controller"])
    BY <1>1, <1>3, <2>3
  <2>7. DOMAIN fields = Names
    BY <1>3
  <2> HIDE DEF fields, schema
  <2> QED BY <2>4, <2>5, <2>6, <2>7
<1> QED BY <1>4, <1>6, <1>7, StructConforms DEF schema

\* The metadata of every resource.
LEMMA MetadataConforms ==
  ASSUME NEW name, name # "", NEW kind, NEW annotations,
         annotations = Zero \/ \E m : TextMap(m) /\ annotations = Map(m)
  PROVE  Conforms4(API!ObjectMeta, Metadata(name, kind, annotations))
<1> DEFINE schema == API!ObjectMeta
           fields == [name |-> Str(resourceName(name)), labels |-> Map(Labels(name)),
                      annotations |-> annotations,
                      ownerReferences |-> Array(<<AsOwner(name, kind)>>)]
<1>1. /\ schema.type = "object" /\ schema.required = {}
      /\ {"name", "labels", "annotations", "ownerReferences"} \subseteq DOMAIN schema.properties
      /\ schema.properties["name"] = API!String
      /\ schema.properties["labels"] = API!MapOf(API!String)
      /\ schema.properties["annotations"] = API!MapOf(API!String)
      /\ schema.properties["ownerReferences"] = API!ListOf(API!OwnerReference)
  BY DEF API!ObjectMeta, API!Object
<1>2. /\ DOMAIN fields = {"name", "labels", "annotations", "ownerReferences"}
      /\ fields["name"] = Str(resourceName(name))
      /\ fields["labels"] = Map(Labels(name))
      /\ fields["annotations"] = annotations
      /\ fields["ownerReferences"] = Array(<<AsOwner(name, kind)>>)
  OBVIOUS
<1>3. Metadata(name, kind, annotations) = Struct(fields)
  BY DEF Metadata
<1> HIDE DEF schema, fields
<1>4. Suits(schema, fields)
  BY <1>1, <1>2 DEF Suits
<1>5. Conforms3(schema.properties["name"], fields["name"])
  BY <1>1, <1>2, PlainConforms DEF PlainIn
<1>6. Conforms3(schema.properties["labels"], fields["labels"])
  BY <1>1, <1>2, LabelsConform, TextMaps, Rises
<1>7. NotZero(annotations) => Conforms3(schema.properties["annotations"], fields["annotations"])
  <2>1. ~NotZero(Zero)
    BY DEF NotZero
  <2> QED BY <1>1, <1>2, <2>1, TextMaps, Rises
<1>8. Conforms3(schema.properties["ownerReferences"], fields["ownerReferences"])
  <2>1. Conforms2(API!OwnerReference, AsOwner(name, kind))
    BY OwnerConforms
  <2>2. Conforms3(API!ListOf(API!OwnerReference), Array(<<AsOwner(name, kind)>>))
    BY <2>1, OneConforms
  <2> QED BY <1>1, <1>2, <2>2
<1>9. \A f \in DOMAIN fields : NotZero(fields[f]) => Conforms3(schema.properties[f], fields[f])
  BY <1>2, <1>5, <1>6, <1>7, <1>8
<1> QED BY <1>3, <1>4, <1>9, StructConforms DEF schema

\* The port of the service.
LEMMA ServicePortConforms ==
  Conforms2(API!ServicePort,
            Struct([name |-> Str(PortName), port |-> Int(Port), protocol |-> Str("TCP")]))
<1> DEFINE schema == API!ServicePort
           fields == [name |-> Str(PortName), port |-> Int(Port), protocol |-> Str("TCP")]
<1>1. /\ schema.type = "object" /\ schema.required = {"port"}
      /\ {"name", "port", "protocol"} \subseteq DOMAIN schema.properties
      /\ schema.properties["name"] = API!String /\ schema.properties["port"] = API!Integer
      /\ schema.properties["protocol"] = API!String
  BY DEF API!ServicePort, API!Object
<1>2. /\ DOMAIN fields = {"name", "port", "protocol"}
      /\ fields["name"] = Str(PortName) /\ fields["port"] = Int(Port)
      /\ fields["protocol"] = Str("TCP")
  OBVIOUS
<1> HIDE DEF schema, fields
<1>3. Suits(schema, fields)
  <2>1. NotZero(fields["port"])
    BY <1>2, Nonempty
  <2> QED BY <1>1, <1>2, <2>1 DEF Suits
<1>4. /\ Conforms1(API!String, Str(PortName)) /\ Conforms1(API!Integer, Int(Port))
      /\ Conforms1(API!String, Str("TCP"))
  BY PlainFields
<1>5. \A f \in DOMAIN fields : Conforms1(schema.properties[f], fields[f])
  BY <1>1, <1>2, <1>4
<1> QED BY <1>3, <1>5, StructConforms DEF schema, fields

\* The service.
LEMMA ServiceConforms ==
  ASSUME NEW name, name # "", NEW kind
  PROVE  Conforms(API!Service, CalculateService(name, kind))
<1> DEFINE port == Struct([name |-> Str(PortName), port |-> Int(Port), protocol |-> Str("TCP")])
           inner == [ports |-> Array(<<port>>), selector |-> Map(MatchLabels(name)),
                     type |-> Str("ClusterIP")]
           tolerate == "service.alpha.kubernetes.io/tolerate-unready-endpoints" :> Str("true")
           fields == [metadata |-> Metadata(name, kind, Map(tolerate)), spec |-> Struct(inner)]
<1>1. CalculateService(name, kind) = Struct(fields)
  BY DEF CalculateService
<1>2. Conforms4(API!ServiceSpec, Struct(inner))
  <2> DEFINE schema == API!ServiceSpec
  <2>1. /\ schema.type = "object" /\ schema.required = {}
        /\ {"ports", "selector", "type"} \subseteq DOMAIN schema.properties
        /\ schema.properties["ports"] = API!ListOf(API!ServicePort)
        /\ schema.properties["selector"] = API!MapOf(API!String)
        /\ schema.properties["type"] = API!String
    BY DEF API!ServiceSpec, API!Object
  <2>2. Conforms3(API!ListOf(API!ServicePort), Array(<<port>>))
    BY ServicePortConforms, OneConforms
  <2>3. /\ DOMAIN inner = {"ports", "selector", "type"}
        /\ inner["ports"] = Array(<<port>>) /\ inner["selector"] = Map(MatchLabels(name))
        /\ inner["type"] = Str("ClusterIP")
    OBVIOUS
  <2> HIDE DEF schema, port, inner
  <2>4. Suits(schema, inner)
    BY <2>1, <2>3 DEF Suits
  <2>5. Conforms3(API!MapOf(API!String), Map(MatchLabels(name)))
    BY LabelsConform, TextMaps, Rises
  <2>6. Conforms3(API!String, Str("ClusterIP"))
    BY PlainFields, Rises
  <2>7. \A f \in DOMAIN inner : Conforms3(schema.properties[f], inner[f])
    BY <2>1, <2>2, <2>3, <2>5, <2>6
  <2> QED BY <2>4, <2>7, StructConforms DEF schema
<1>3. Conforms4(API!ObjectMeta, Metadata(name, kind, Map(tolerate)))
  <2>1. TextMap(tolerate)
    BY TextMaps
  <2> HIDE DEF tolerate
  <2> QED BY <2>1, MetadataConforms
<1> DEFINE schema == API!Service
<1>4. /\ schema.type = "object" /\ schema.required = {}
      /\ {"metadata", "spec"} \subseteq DOMAIN schema.properties
      /\ schema.properties["metadata"] = API!ObjectMeta
      /\ schema.properties["spec"] = API!ServiceSpec
  BY DEF API!Service, API!Object
<1> HIDE DEF port, inner, tolerate
<1>5. /\ DOMAIN fields = {"metadata", "spec"}
      /\ fields["metadata"] = Metadata(name, kind, Map(tolerate))
      /\ fields["spec"] = Struct(inner)
  OBVIOUS
<1> HIDE DEF fields, schema
<1>6. Suits(schema, fields)
  BY <1>4, <1>5 DEF Suits
<1>7. \A f \in DOMAIN fields : Conforms4(schema.properties[f], fields[f])
  BY <1>2, <1>3, <1>4, <1>5
<1>8. Conforms5(schema, Struct(fields))
  BY <1>6, <1>7, StructConforms
<1> QED BY <1>1, <1>8, Rises DEF schema

\* The secret, whatever is in it.
LEMMA SecretConforms ==
  ASSUME NEW name, name # "", NEW kind, NEW s
  PROVE  Conforms(API!Secret, CalculateSecret(name, kind, s))
<1> DEFINE certs == IF Certified(s) THEN CertKey :> Str("certificate") @@ KeyKey :> Str("key")
                    ELSE <<>>
           password == IF IsSet(s.password) THEN PasswordKey :> Str(s.password) ELSE <<>>
           data == certs @@ password
           fields == [metadata |-> Metadata(name, kind, Map(<<>>)), data |-> Map(data)]
           schema == API!Secret
<1>1. CalculateSecret(name, kind, s) = Struct(fields)
  BY DEF CalculateSecret
<1>2. TextMap(data)
  <2>1. TextMap(certs)
    BY TextMaps
  <2>2. TextMap(password)
    BY TextMaps
  <2> HIDE DEF certs, password
  <2> QED BY <2>1, <2>2, TextMaps
<1>3. Conforms4(API!ObjectMeta, Metadata(name, kind, Map(<<>>)))
  <2>1. TextMap(<<>>)
    BY TextMaps
  <2> QED BY <2>1, MetadataConforms
<1>4. /\ schema.type = "object" /\ schema.required = {}
      /\ {"metadata", "data"} \subseteq DOMAIN schema.properties
      /\ schema.properties["metadata"] = API!ObjectMeta
      /\ schema.properties["data"] = API!MapOf(API!String)
  BY DEF API!Secret, API!Object
<1> HIDE DEF certs, password, data
<1>5. /\ DOMAIN fields = {"metadata", "data"}
      /\ fields["metadata"] = Metadata(name, kind, Map(<<>>))
      /\ fields["data"] = Map(data)
  OBVIOUS
<1> HIDE DEF fields, schema
<1>6. Suits(schema, fields)
  BY <1>4, <1>5 DEF Suits
<1>7. Conforms4(API!MapOf(API!String), Map(data))
  BY <1>2, TextMaps, Rises
<1>8. \A f \in DOMAIN fields : Conforms4(schema.properties[f], fields[f])
  BY <1>3, <1>4, <1>5, <1>7
<1>9. Conforms5(schema, Struct(fields))
  BY <1>6, <1>8, StructConforms
<1> QED BY <1>1, <1>9, Rises DEF schema
-----------------------------------------------------------------------------
(* What a pod consists of, and its schemas *)

\* An object without fields.
LEMMA EmptyConforms ==
  ASSUME NEW schema, schema.type = "object", schema.required = {}
  PROVE  Conforms1(schema, Empty) /\ Conforms1(schema, Ptr(Empty))
<1>1. DOMAIN Empty = {"object"} /\ DOMAIN Empty.object = {}
  BY DEF Empty
<1>2. Fields(Empty) = Empty.object
  BY <1>1 DEF Fields, Has
<1>3. DOMAIN Ptr(Empty) = {"ptr"} /\ Ptr(Empty).ptr = Empty
  BY DEF Ptr
<1>4. Encoded(Empty) = [object |-> Empty.object] /\ Encoded(Ptr(Empty)) = [object |-> Empty.object]
  BY <1>1, <1>2, <1>3 DEF Encoded
<1>5. ASSUME NEW v, Encoded(v) = [object |-> Empty.object]
      PROVE  Conforms1(schema, v)
  BY <1>1, <1>5 DEF Conforms1, Allows, Known, Admits, Fits, Contents
<1> QED BY <1>4, <1>5

\* A struct that embeds another is encoded as one with the fields of both.
Spliced(schema, outer, inner) ==
  /\ schema.type = "object"
  /\ "inline" \in DOMAIN outer /\ outer["inline"] = Struct(inner)
  /\ (DOMAIN outer \ {"inline"}) \cup DOMAIN inner \subseteq DOMAIN schema.properties
  /\ \A f \in schema.required : \/ f \in DOMAIN outer \ {"inline"} /\ NotZero(outer[f])
                                \/ f \in DOMAIN inner /\ NotZero(inner[f])

LEMMA EncodedSpliced ==
  ASSUME NEW schema, NEW outer, NEW inner, Spliced(schema, outer, inner)
  PROVE  LET v == Struct(outer)
             e == Encoded(v)
         IN /\ Encoded(Ptr(v)) = e
            /\ DOMAIN e = {"object"}
            /\ DOMAIN e.object = {f \in DOMAIN outer \ {"inline"} : NotZero(outer[f])}
                                   \cup {f \in DOMAIN inner : NotZero(inner[f])}
            /\ \A f \in DOMAIN e.object :
                 \/ f \in DOMAIN outer \ {"inline"} /\ e.object[f] = outer[f]
                 \/ f \in DOMAIN inner /\ e.object[f] = inner[f]
<1> DEFINE v == Struct(outer)
           w == Struct(inner)
           own == [f \in DOMAIN v.object \ {"inline"} |-> v.object[f]]
<1>1. /\ DOMAIN v = {"object"}
      /\ DOMAIN v.object = {f \in DOMAIN outer : NotZero(outer[f])}
      /\ \A f \in DOMAIN v.object : v.object[f] = outer[f]
  BY StructOf
<1>2. /\ DOMAIN w.object = {f \in DOMAIN inner : NotZero(inner[f])}
      /\ \A f \in DOMAIN w.object : w.object[f] = inner[f]
      /\ NotZero(w)
  BY StructOf, Nonempty
<1>3. DOMAIN Ptr(v) = {"ptr"} /\ Ptr(v).ptr = v
  BY DEF Ptr
<1> HIDE DEF v
<1>4. Has(v, "inline") /\ v.object["inline"] = w
  BY <1>1, <1>2 DEF Has, Spliced
<1> HIDE DEF w
<1>5. Fields(v) = own @@ w.object
  BY <1>4 DEF Fields
<1>6. /\ DOMAIN own = {f \in DOMAIN outer \ {"inline"} : NotZero(outer[f])}
      /\ \A f \in DOMAIN own : own[f] = outer[f]
  BY <1>1
<1> HIDE DEF own
<1>7. /\ DOMAIN Fields(v) = DOMAIN own \cup DOMAIN w.object
      /\ \A f \in DOMAIN Fields(v) :
           Fields(v)[f] = IF f \in DOMAIN own THEN own[f] ELSE w.object[f]
  BY <1>5 DEF @@
<1>8. Encoded(v) = [object |-> Fields(v)] /\ Encoded(Ptr(v)) = [object |-> Fields(v)]
  BY <1>1, <1>3 DEF Encoded
<1>9. DOMAIN Encoded(v) = {"object"} /\ Encoded(v).object = Fields(v)
  BY <1>8
<1> QED BY <1>2, <1>6, <1>7, <1>8, <1>9 DEF v

LEMMA SplicedConforms ==
  ASSUME NEW schema, NEW outer, NEW inner, Spliced(schema, outer, inner)
  PROVE
    /\ /\ \A f \in DOMAIN outer \ {"inline"} : Conforms1(schema.properties[f], outer[f])
       /\ \A f \in DOMAIN inner : Conforms1(schema.properties[f], inner[f])
       => Conforms2(schema, Ptr(Struct(outer)))
    /\ /\ \A f \in DOMAIN outer \ {"inline"} : Conforms4(schema.properties[f], outer[f])
       /\ \A f \in DOMAIN inner : Conforms4(schema.properties[f], inner[f])
       => Conforms5(schema, Struct(outer))
<1> DEFINE v == Struct(outer)
           e == Encoded(v)
<1>1. /\ Encoded(Ptr(v)) = e
      /\ DOMAIN e = {"object"}
      /\ DOMAIN e.object = {f \in DOMAIN outer \ {"inline"} : NotZero(outer[f])}
                             \cup {f \in DOMAIN inner : NotZero(inner[f])}
      /\ \A f \in DOMAIN e.object :
           \/ f \in DOMAIN outer \ {"inline"} /\ e.object[f] = outer[f]
           \/ f \in DOMAIN inner /\ e.object[f] = inner[f]
  BY EncodedSpliced
<1>2. Encoded(v) = e
  OBVIOUS
<1> HIDE DEF v, e
<1>3. Known(schema, e) /\ schema.required \subseteq DOMAIN e.object /\ schema.type = "object"
  BY <1>1 DEF Known, Spliced
<1>4. ASSUME \A f \in DOMAIN outer \ {"inline"} : Conforms1(schema.properties[f], outer[f]),
             \A f \in DOMAIN inner : Conforms1(schema.properties[f], inner[f])
      PROVE  Conforms2(schema, Ptr(v))
  BY <1>1, <1>3, <1>4 DEF Conforms2, Allows, Admits, Fits, Contents
<1>5. ASSUME \A f \in DOMAIN outer \ {"inline"} : Conforms4(schema.properties[f], outer[f]),
             \A f \in DOMAIN inner : Conforms4(schema.properties[f], inner[f])
      PROVE  Conforms5(schema, v)
  BY <1>1, <1>2, <1>3, <1>5 DEF Conforms5, Allows, Admits, Fits, Contents
<1> QED BY <1>4, <1>5 DEF v

\* A list of texts, like a command and its arguments.
TextList(l) == \E S : l \in Seq(S) /\ \A x \in S : \E t : x = Str(t)

LEMMA TextLists ==
  /\ \A k, l : TextList(k) /\ TextList(l) => TextList(k \o l)
  /\ \A l : TextList(l) => Conforms2(API!ListOf(API!String), Array(l))
<1>1. ASSUME NEW k, NEW l, TextList(k), TextList(l)
      PROVE  TextList(k \o l)
  <2>1. PICK S : k \in Seq(S) /\ \A x \in S : \E t : x = Str(t)
    BY <1>1 DEF TextList
  <2>2. PICK T : l \in Seq(T) /\ \A x \in T : \E t : x = Str(t)
    BY <1>1 DEF TextList
  <2>3. k \o l \in Seq(S \cup T)
    BY <2>1, <2>2
  <2> QED BY <2>1, <2>2, <2>3 DEF TextList
<1>2. ASSUME NEW l, TextList(l)
      PROVE  Conforms2(API!ListOf(API!String), Array(l))
  <2>1. PICK S : l \in Seq(S) /\ \A x \in S : \E t : x = Str(t)
    BY <1>2 DEF TextList
  <2>2. \A i \in DOMAIN l : l[i] \in S
    BY <2>1
  <2>3. \A i \in DOMAIN l : Conforms1(API!String, l[i])
    BY <2>1, <2>2, PlainFields
  <2> QED BY <2>3, ListConforms
<1> QED BY <1>1, <1>2

\* The environment variable with the password, whose selector embeds a name.
LEMMA VariableConforms ==
  ASSUME NEW name
  PROVE  Conforms4(API!EnvVar, PasswordVariable(name))
<1> DEFINE inner == [name |-> Str(resourceName(name))]
           outer == [inline |-> Struct(inner), key |-> Str(PasswordKey)]
           source == [secretKeyRef |-> Ptr(Struct(outer))]
           fields == [name |-> Str("PASSWORD"), valueFrom |-> Ptr(Struct(source))]
<1>1. PasswordVariable(name) = Struct(fields)
  BY DEF PasswordVariable
<1>2. Conforms2(API!SecretKeySelector, Ptr(Struct(outer)))
  <2> DEFINE schema == API!SecretKeySelector
  <2>1. /\ schema.type = "object" /\ schema.required = {"key"}
        /\ {"name", "key"} \subseteq DOMAIN schema.properties
        /\ schema.properties["name"] = API!String /\ schema.properties["key"] = API!String
    BY DEF API!SecretKeySelector, API!Object
  <2>2. DOMAIN inner = {"name"} /\ inner["name"] = Str(resourceName(name))
    OBVIOUS
  <2> HIDE DEF inner
  <2>3. /\ DOMAIN outer = {"inline", "key"} /\ outer["key"] = Str(PasswordKey)
        /\ outer["inline"] = Struct(inner)
    OBVIOUS
  <2>4. NotZero(Str(PasswordKey))
    BY Nonempty DEF PasswordKey
  <2> HIDE DEF outer, schema
  <2>5. Spliced(schema, outer, inner)
    BY <2>1, <2>2, <2>3, <2>4 DEF Spliced
  <2>6. Conforms1(API!String, Str(resourceName(name))) /\ Conforms1(API!String, Str(PasswordKey))
    BY PlainFields
  <2>7. /\ \A f \in DOMAIN outer \ {"inline"} : Conforms1(schema.properties[f], outer[f])
        /\ \A f \in DOMAIN inner : Conforms1(schema.properties[f], inner[f])
    BY <2>1, <2>2, <2>3, <2>6
  <2> QED BY <2>5, <2>7, SplicedConforms DEF schema
<1> HIDE DEF outer
<1>3. Conforms3(API!EnvVarSource, Ptr(Struct(source)))
  <2> DEFINE schema == API!EnvVarSource
  <2>1. /\ schema.type = "object" /\ schema.required = {}
        /\ "secretKeyRef" \in DOMAIN schema.properties
        /\ schema.properties["secretKeyRef"] = API!SecretKeySelector
    BY DEF API!EnvVarSource, API!Object
  <2>2. DOMAIN source = {"secretKeyRef"} /\ source["secretKeyRef"] = Ptr(Struct(outer))
    OBVIOUS
  <2> HIDE DEF source, schema
  <2>3. Suits(schema, source)
    BY <2>1, <2>2 DEF Suits
  <2>4. \A f \in DOMAIN source : Conforms2(schema.properties[f], source[f])
    BY <1>2, <2>1, <2>2
  <2> QED BY <2>3, <2>4, StructConforms DEF schema
<1> HIDE DEF source
<1> DEFINE schema == API!EnvVar
<1>4. /\ schema.type = "object" /\ schema.required = {"name"}
      /\ {"name", "valueFrom"} \subseteq DOMAIN schema.properties
      /\ schema.properties["name"] = API!String
      /\ schema.properties["valueFrom"] = API!EnvVarSource
  BY DEF API!EnvVar, API!Object
<1>5. /\ DOMAIN fields = {"name", "valueFrom"} /\ fields["name"] = Str("PASSWORD")
      /\ fields["valueFrom"] = Ptr(Struct(source))
  OBVIOUS
<1> HIDE DEF fields, schema
<1>6. Suits(schema, fields)
  BY <1>4, <1>5, Nonempty DEF Suits
<1>7. Conforms3(API!String, Str("PASSWORD"))
  BY PlainFields, Rises
<1>8. \A f \in DOMAIN fields : Conforms3(schema.properties[f], fields[f])
  BY <1>3, <1>4, <1>5, <1>7
<1> QED BY <1>1, <1>6, <1>8, StructConforms DEF schema

\* The hook that installs packages.
LEMMA HookConforms ==
  ASSUME NEW s, Listed(s)
  PROVE  Conforms5(API!Lifecycle, Ptr(Struct([postStart |-> PostStart(s)])))
<1> DEFINE action == [command |-> Array(Command(s))]
           handler == [exec |-> Ptr(Struct(action))]
           fields == [postStart |-> Ptr(Struct(handler))]
<1>1. PostStart(s) = Ptr(Struct(handler))
  BY DEF PostStart, Command
<1>2. Conforms2(API!ListOf(API!String), Array(Command(s)))
  <2> DEFINE first == <<Str("conda"), Str("install"), Str("-y")>>
             words == [i \in DOMAIN s.packages |-> Str(Word(s.packages[i]))]
  <2>1. TextList(first)
    <3>1. first \in Seq({Str("conda"), Str("install"), Str("-y")})
      OBVIOUS
    <3> HIDE DEF first
    <3> QED BY <3>1 DEF TextList
  <2>2. TextList(words)
    <3> DEFINE S == {Str(Word(s.packages[i])) : i \in DOMAIN s.packages}
    <3>1. words \in [1..Len(s.packages) -> S]
      BY DEF Listed
    <3>2. \A x \in S : \E t : x = Str(t)
      OBVIOUS
    <3> HIDE DEF words, S
    <3>3. words \in Seq(S)
      BY <3>1 DEF Listed
    <3> QED BY <3>2, <3>3 DEF TextList
  <2>3. Command(s) = first \o words
    BY DEF Command
  <2> HIDE DEF first, words
  <2> QED BY <2>1, <2>2, <2>3, TextLists
<1>3. Conforms3(API!ExecAction, Ptr(Struct(action)))
  <2> DEFINE schema == API!ExecAction
  <2>1. /\ schema.type = "object" /\ schema.required = {}
        /\ "command" \in DOMAIN schema.properties
        /\ schema.properties["command"] = API!ListOf(API!String)
    BY DEF API!ExecAction, API!Object
  <2>2. DOMAIN action = {"command"} /\ action["command"] = Array(Command(s))
    OBVIOUS
  <2> HIDE DEF action, schema
  <2>3. Suits(schema, action)
    BY <2>1, <2>2 DEF Suits
  <2>4. \A f \in DOMAIN action : Conforms2(schema.properties[f], action[f])
    BY <1>2, <2>1, <2>2
  <2> QED BY <2>3, <2>4, StructConforms DEF schema
<1> HIDE DEF action
<1>4. Conforms4(API!Handler, Ptr(Struct(handler)))
  <2> DEFINE schema == API!Handler
  <2>1. /\ schema.type = "object" /\ schema.required = {}
        /\ "exec" \in DOMAIN schema.properties
        /\ schema.properties["exec"] = API!ExecAction
    BY DEF API!Handler, API!Object
  <2>2. DOMAIN handler = {"exec"} /\ handler["exec"] = Ptr(Struct(action))
    OBVIOUS
  <2> HIDE DEF handler, schema
  <2>3. Suits(schema, handler)
    BY <2>1, <2>2 DEF Suits
  <2>4. \A f \in DOMAIN handler : Conforms3(schema.properties[f], handler[f])
    BY <1>3, <2>1, <2>2
  <2> QED BY <2>3, <2>4, StructConforms DEF schema
<1> HIDE DEF handler
<1>5. Conforms5(API!Lifecycle, Ptr(Struct(fields)))
  <2> DEFINE schema == API!Lifecycle
  <2>1. /\ schema.type = "object" /\ schema.required = {}
        /\ "postStart" \in DOMAIN schema.properties
        /\ schema.properties["postStart"] = API!Handler
    BY DEF API!Lifecycle, API!Object
  <2>2. DOMAIN fields = {"postStart"} /\ fields["postStart"] = Ptr(Struct(handler))
    OBVIOUS
  <2> HIDE DEF fields, schema
  <2>3. Suits(schema, fields)
    BY <2>1, <2>2 DEF Suits
  <2>4. \A f \in DOMAIN fields : Conforms4(schema.properties[f], fields[f])
    BY <1>4, <2>1, <2>2
  <2> QED BY <2>3, <2>4, StructConforms DEF schema
<1> QED BY <1>1, <1>5

\* The port that is open in the container, and where its certificate is mounted.
LEMMA OpenPortConforms == Conforms2(API!ContainerPort, OpenPort)
<1> DEFINE schema == API!ContainerPort
           fields == [name |-> Str(PortName), containerPort |-> Int(Port),
                      protocol |-> Str("TCP")]
<1>1. /\ schema.type = "object" /\ schema.required = {"containerPort"}
      /\ {"name", "containerPort", "protocol"} \subseteq DOMAIN schema.properties
      /\ schema.properties["name"] = API!String
      /\ schema.properties["containerPort"] = API!Integer
      /\ schema.properties["protocol"] = API!String
  BY DEF API!ContainerPort, API!Object
<1>2. /\ DOMAIN fields = {"name", "containerPort", "protocol"}
      /\ fields["name"] = Str(PortName) /\ fields["containerPort"] = Int(Port)
      /\ fields["protocol"] = Str("TCP")
  OBVIOUS
<1>3. OpenPort = Struct(fields)
  BY DEF OpenPort
<1> HIDE DEF schema, fields
<1>4. Suits(schema, fields)
  <2>1. NotZero(fields["containerPort"])
    BY <1>2, Nonempty
  <2> QED BY <1>1, <1>2, <2>1 DEF Suits
<1>5. /\ Conforms1(API!String, Str(PortName)) /\ Conforms1(API!Integer, Int(Port))
      /\ Conforms1(API!String, Str("TCP"))
  BY PlainFields
<1>6. \A f \in DOMAIN fields : Conforms1(schema.properties[f], fields[f])
  BY <1>1, <1>2, <1>5
<1> QED BY <1>3, <1>4, <1>6, StructConforms DEF schema

LEMMA MountConforms ==
  Conforms2(API!VolumeMount,
            Struct([name |-> Str("tls"), readOnly |-> Bool(TRUE), mountPath |-> Str(MountPath)]))
<1> DEFINE schema == API!VolumeMount
           fields == [name |-> Str("tls"), readOnly |-> Bool(TRUE), mountPath |-> Str(MountPath)]
<1>1. /\ schema.type = "object" /\ schema.required = {"name", "mountPath"}
      /\ {"name", "readOnly", "mountPath"} \subseteq DOMAIN schema.properties
      /\ schema.properties["name"] = API!String /\ schema.properties["readOnly"] = API!Boolean
      /\ schema.properties["mountPath"] = API!String
  BY DEF API!VolumeMount, API!Object
<1>2. /\ DOMAIN fields = {"name", "readOnly", "mountPath"}
      /\ fields["name"] = Str("tls") /\ fields["readOnly"] = Bool(TRUE)
      /\ fields["mountPath"] = Str(MountPath)
  OBVIOUS
<1> HIDE DEF schema, fields
<1>3. NotZero(Str("tls")) /\ NotZero(Str(MountPath))
  BY Nonempty DEF MountPath
<1>4. Suits(schema, fields)
  BY <1>1, <1>2, <1>3 DEF Suits
<1>5. /\ Conforms1(API!String, Str("tls")) /\ Conforms1(API!Boolean, Bool(TRUE))
      /\ Conforms1(API!String, Str(MountPath))
  BY PlainFields
<1>6. \A f \in DOMAIN fields : Conforms1(schema.properties[f], fields[f])
  BY <1>1, <1>2, <1>5
<1> QED BY <1>4, <1>6, StructConforms DEF schema, fields

\* What the container may use, with a GPU and without.
LEMMA LimitsConform ==
  ASSUME NEW gpu
  PROVE  Conforms3(API!ResourceRequirements, Limits(gpu, "DecimalExponent"))
<1> DEFINE schema == API!ResourceRequirements
           q == "nvidia.com/gpu" :> Quantity("1", "DecimalExponent")
           fields == [limits |-> Map(q)]
<1>1. /\ schema.type = "object" /\ schema.required = {} /\ "limits" \in DOMAIN schema.properties
      /\ schema.properties["limits"] = API!MapOf(API!Any)
  BY DEF API!ResourceRequirements, API!Object
<1>2. gpu => Limits(gpu, "DecimalExponent") = Struct(fields)
  BY DEF Limits
<1>3. ~gpu => Limits(gpu, "DecimalExponent") = Empty
  BY DEF Limits
<1> HIDE DEF q
<1>4. DOMAIN fields = {"limits"} /\ fields["limits"] = Map(q)
  OBVIOUS
<1> HIDE DEF fields, schema
<1>5. Conforms2(API!MapOf(API!Any), Map(q))
  BY PlainFields, MapConforms
<1>6. Suits(schema, fields)
  BY <1>1, <1>4 DEF Suits
<1>7. \A f \in DOMAIN fields : Conforms2(schema.properties[f], fields[f])
  BY <1>1, <1>4, <1>5
<1>8. Conforms3(schema, Struct(fields))
  BY <1>6, <1>7, StructConforms
<1>9. Conforms3(schema, Empty)
  BY <1>1, EmptyConforms, Rises
<1> QED BY <1>2, <1>3, <1>8, <1>9 DEF schema

\* The arguments of the container's command.
LEMMA ArgumentsConform ==
  ASSUME NEW name, NEW s
  PROVE  Conforms2(API!ListOf(API!String), ContainerFields(name, s)["args"])
<1> DEFINE start == <<Str("start-notebook.sh"), Str("--NotebookApp.token=")>>
           password == <<Str("--NotebookApp.password=\"$(PASSWORD)\"")>>
           cert == Str("--NotebookApp.certfile=" \o MountPath \o "/cert")
           key == Str("--NotebookApp.keyfile=" \o MountPath \o "/key")
           args == start \o (IF IsSet(s.password) THEN password ELSE <<>>)
                         \o (IF ShouldHaveCerts(s) THEN <<cert, key>> ELSE <<>>)
<1>1. ContainerFields(name, s)["args"] = Array(args)
  BY DEF ContainerFields
<1>2. TextList(start)
  <2>1. start \in Seq({Str("start-notebook.sh"), Str("--NotebookApp.token=")})
    OBVIOUS
  <2> HIDE DEF start
  <2> QED BY <2>1 DEF TextList
<1>3. TextList(password)
  <2>1. ASSUME NEW t
        PROVE  TextList(<<Str(t)>>)
    <3> DEFINE one == <<Str(t)>>
    <3>1. one \in Seq({Str(t)})
      OBVIOUS
    <3> HIDE DEF one
    <3>2. TextList(one)
      BY <3>1 DEF TextList
    <3> QED BY <3>2 DEF one
  <2> QED BY <2>1
<1>4. TextList(<<cert, key>>)
  <2>1. (\E t : cert = Str(t)) /\ (\E t : key = Str(t))
    OBVIOUS
  <2> HIDE DEF cert, key
  <2> DEFINE both == <<cert, key>>
  <2>2. both \in Seq({cert, key})
    OBVIOUS
  <2> HIDE DEF both
  <2>3. TextList(both)
    BY <2>1, <2>2 DEF TextList
  <2> QED BY <2>3 DEF both
<1>5. TextList(<<>>)
  <2> DEFINE none == <<>>
  <2>1. none \in Seq({})
    OBVIOUS
  <2> HIDE DEF none
  <2>2. TextList(none)
    BY <2>1 DEF TextList
  <2> QED BY <2>2 DEF none
<1> HIDE DEF start, password, cert, key
<1>6. TextList(IF IsSet(s.password) THEN password ELSE <<>>)
  BY <1>3, <1>5
<1>7. TextList(IF ShouldHaveCerts(s) THEN <<cert, key>> ELSE <<>>)
  BY <1>4, <1>5
<1>8. TextList(args)
  <2> DEFINE second == IF IsSet(s.password) THEN password ELSE <<>>
             third == IF ShouldHaveCerts(s) THEN <<cert, key>> ELSE <<>>
  <2>1. TextList(second) /\ TextList(third)
    BY <1>6, <1>7
  <2>2. args = start \o second \o third
    OBVIOUS
  <2> HIDE DEF args, second, third
  <2>3. TextList(start \o second)
    BY <1>2, <2>1, TextLists
  <2> QED BY <2>1, <2>2, <2>3, TextLists
<1> HIDE DEF args
<1> QED BY <1>1, <1>8, TextLists

\* The container.
LEMMA ContainerConforms ==
  ASSUME NEW name, NEW s, Listed(s)
  PROVE  Conforms6(API!Container, NotebookContainer(name, s))
<1> DEFINE schema == API!Container
           fields == ContainerFields(name, s)
           Names == {"args", "image", "imagePullPolicy", "lifecycle", "name", "ports",
                     "terminationMessagePath", "terminationMessagePolicy", "env",
                     "volumeMounts", "resources"}
<1>1. schema.type = "object" /\ schema.required = {"name"} /\ Names \subseteq DOMAIN schema.properties
  BY DEF API!Container, API!Object
<1>2. /\ schema.properties["args"] = API!ListOf(API!String)
      /\ schema.properties["image"] = API!String
      /\ schema.properties["imagePullPolicy"] = API!String
      /\ schema.properties["lifecycle"] = API!Lifecycle
      /\ schema.properties["name"] = API!String
      /\ schema.properties["ports"] = API!ListOf(API!ContainerPort)
      /\ schema.properties["terminationMessagePath"] = API!String
      /\ schema.properties["terminationMessagePolicy"] = API!String
      /\ schema.properties["env"] = API!ListOf(API!EnvVar)
      /\ schema.properties["volumeMounts"] = API!ListOf(API!VolumeMount)
      /\ schema.properties["resources"] = API!ResourceRequirements
  BY DEF API!Container, API!Object
<1>3. DOMAIN fields = Names /\ NotZero(fields["name"]) /\ fields["ports"] = Array(<<OpenPort>>)
  BY ContainerFieldsOf
<1>4. /\ fields["imagePullPolicy"] = Str("Always")
      /\ fields["terminationMessagePath"] = Str("/dev/termination-log")
      /\ fields["terminationMessagePolicy"] = Str("File")
      /\ fields["name"] = Str("notebook")
  BY DEF ContainerFields, terminationMessagePath
<1>5. NotebookContainer(name, s) = Struct(fields)
  BY DEF NotebookContainer
<1>6. Conforms2(API!ListOf(API!String), fields["args"])
  BY ArgumentsConform
<1> DEFINE mount == Struct([name |-> Str("tls"), readOnly |-> Bool(TRUE),
                            mountPath |-> Str(MountPath)])
<1>7. /\ fields["image"] = Str(Image(s.flavor))
      /\ fields["lifecycle"] = Hook(s)
      /\ fields["env"] = Given(IsSet(s.password), Array(<<PasswordVariable(name)>>))
      /\ fields["volumeMounts"] = Given(ShouldHaveCerts(s), Array(<<mount>>))
      /\ fields["resources"] = Limits(s.gpu, "DecimalExponent")
  BY ContainerFieldsVary
<1>8. Conforms2(API!VolumeMount, mount)
  BY MountConforms
<1> HIDE DEF fields, schema, mount
<1>9. ~NotZero(Zero)
  BY DEF NotZero
<1>10. Conforms5(schema.properties["args"], fields["args"])
  BY <1>2, <1>6, Rises
<1>11. Conforms5(schema.properties["image"], fields["image"])
  BY <1>2, <1>7, PlainConforms DEF PlainIn
<1>12. /\ Conforms5(schema.properties["imagePullPolicy"], fields["imagePullPolicy"])
       /\ Conforms5(schema.properties["terminationMessagePath"], fields["terminationMessagePath"])
       /\ Conforms5(schema.properties["terminationMessagePolicy"],
                    fields["terminationMessagePolicy"])
       /\ Conforms5(schema.properties["name"], fields["name"])
  <2>1. /\ Conforms5(API!String, Str("Always")) /\ Conforms5(API!String, Str("File"))
        /\ Conforms5(API!String, Str("/dev/termination-log"))
        /\ Conforms5(API!String, Str("notebook"))
    BY PlainFields, Rises
  <2> QED BY <1>2, <1>4, <2>1
<1>13. NotZero(fields["lifecycle"]) =>
         Conforms5(schema.properties["lifecycle"], fields["lifecycle"])
  <2>1. Conforms5(API!Lifecycle, Ptr(Struct([postStart |-> PostStart(s)])))
    BY HookConforms
  <2> QED BY <1>2, <1>7, <1>9, <2>1 DEF Hook, Given
<1>14. Conforms5(schema.properties["ports"], fields["ports"])
  <2>1. Conforms3(API!ListOf(API!ContainerPort), Array(<<OpenPort>>))
    BY OpenPortConforms, OneConforms
  <2>2. Conforms5(API!ListOf(API!ContainerPort), Array(<<OpenPort>>))
    BY <2>1, Rises
  <2> QED BY <1>2, <1>3, <2>2
<1>15. NotZero(fields["env"]) => Conforms5(schema.properties["env"], fields["env"])
  <2>1. Conforms4(API!EnvVar, PasswordVariable(name))
    BY VariableConforms
  <2>2. Conforms5(API!ListOf(API!EnvVar), Array(<<PasswordVariable(name)>>))
    BY <2>1, OneConforms
  <2> QED BY <1>2, <1>7, <1>9, <2>2 DEF Given
<1>16. NotZero(fields["volumeMounts"]) =>
         Conforms5(schema.properties["volumeMounts"], fields["volumeMounts"])
  <2>1. Conforms3(API!ListOf(API!VolumeMount), Array(<<mount>>))
    BY <1>8, OneConforms
  <2>2. Conforms5(API!ListOf(API!VolumeMount), Array(<<mount>>))
    BY <2>1, Rises
  <2> QED BY <1>2, <1>7, <1>9, <2>2 DEF Given
<1>17. Conforms5(schema.properties["resources"], fields["resources"])
  <2>1. Conforms5(API!ResourceRequirements, Limits(s.gpu, "DecimalExponent"))
    BY LimitsConform, Rises
  <2> QED BY <1>2, <1>7, <2>1
<1>18. Suits(schema, fields)
  BY <1>1, <1>3 DEF Suits
<1>19. \A f \in DOMAIN fields : NotZero(fields[f]) => Conforms5(schema.properties[f], fields[f])
  BY <1>3, <1>10, <1>11, <1>12, <1>13, <1>14, <1>15, <1>16, <1>17
<1> QED BY <1>5, <1>18, <1>19, StructConforms DEF schema

\* The volume with the certificate, which embeds its source.
LEMMA VolumeConforms ==
  ASSUME NEW name
  PROVE  Conforms5(API!Volume, CertificateVolume(name))
<1> DEFINE cert == Struct([key |-> Str(CertKey), path |-> Str("cert")])
           key == Struct([key |-> Str(KeyKey), path |-> Str("key")])
           source == [defaultMode |-> Ptr(Int("420")), items |-> Array(<<cert, key>>),
                      secretName |-> Str(resourceName(name))]
           inner == [secret |-> Ptr(Struct(source))]
           outer == [name |-> Str("tls"), inline |-> Struct(inner)]
<1>1. CertificateVolume(name) = Struct(outer)
  BY DEF CertificateVolume
<1>2. ASSUME NEW k, k # "", NEW p, p # ""
      PROVE  Conforms2(API!KeyToPath, Struct([key |-> Str(k), path |-> Str(p)]))
  <2> DEFINE schema == API!KeyToPath
             fields == [key |-> Str(k), path |-> Str(p)]
  <2>1. /\ schema.type = "object" /\ schema.required = {"key", "path"}
        /\ {"key", "path"} \subseteq DOMAIN schema.properties
        /\ schema.properties["key"] = API!String /\ schema.properties["path"] = API!String
    BY DEF API!KeyToPath, API!Object
  <2>2. DOMAIN fields = {"key", "path"} /\ fields["key"] = Str(k) /\ fields["path"] = Str(p)
    OBVIOUS
  <2> HIDE DEF schema, fields
  <2>3. NotZero(Str(k)) /\ NotZero(Str(p))
    BY <1>2, Nonempty
  <2>4. Suits(schema, fields)
    BY <2>1, <2>2, <2>3 DEF Suits
  <2>5. Conforms1(API!String, Str(k)) /\ Conforms1(API!String, Str(p))
    BY PlainFields
  <2>6. \A f \in DOMAIN fields : Conforms1(schema.properties[f], fields[f])
    BY <2>1, <2>2, <2>5
  <2> QED BY <2>4, <2>6, StructConforms DEF schema, fields
<1>3. Conforms3(API!ListOf(API!KeyToPath), Array(<<cert, key>>))
  <2>1. CertKey # "" /\ KeyKey # "" /\ "cert" # "" /\ "key" # ""
    BY DEF CertKey, KeyKey
  <2>2. Conforms2(API!KeyToPath, cert) /\ Conforms2(API!KeyToPath, key)
    BY <1>2, <2>1
  <2> DEFINE both == <<cert, key>>
  <2> HIDE DEF cert, key
  <2>3. \A i \in DOMAIN both : both[i] = cert \/ both[i] = key
    OBVIOUS
  <2> HIDE DEF both
  <2>4. Conforms3(API!ListOf(API!KeyToPath), Array(both))
    BY <2>2, <2>3, ListConforms
  <2> QED BY <2>4 DEF both
<1> HIDE DEF cert, key
<1>4. Conforms4(API!SecretVolumeSource, Ptr(Struct(source)))
  <2> DEFINE schema == API!SecretVolumeSource
  <2>1. /\ schema.type = "object" /\ schema.required = {}
        /\ {"defaultMode", "items", "secretName"} \subseteq DOMAIN schema.properties
        /\ schema.properties["defaultMode"] = API!Integer
        /\ schema.properties["items"] = API!ListOf(API!KeyToPath)
        /\ schema.properties["secretName"] = API!String
    BY DEF API!SecretVolumeSource, API!Object
  <2>2. /\ DOMAIN source = {"defaultMode", "items", "secretName"}
        /\ source["defaultMode"] = Ptr(Int("420")) /\ source["items"] = Array(<<cert, key>>)
        /\ source["secretName"] = Str(resourceName(name))
    OBVIOUS
  <2> HIDE DEF source, schema
  <2>3. Suits(schema, source)
    BY <2>1, <2>2 DEF Suits
  <2>4. /\ Conforms3(API!Integer, Ptr(Int("420")))
        /\ Conforms3(API!String, Str(resourceName(name)))
    BY PlainFields, Rises
  <2>5. \A f \in DOMAIN source : Conforms3(schema.properties[f], source[f])
    BY <1>3, <2>1, <2>2, <2>4
  <2> QED BY <2>3, <2>5, StructConforms DEF schema
<1> HIDE DEF source
<1> DEFINE schema == API!Volume
<1>5. /\ schema.type = "object" /\ schema.required = {"name"}
      /\ {"name", "secret"} \subseteq DOMAIN schema.properties
      /\ schema.properties["name"] = API!String
      /\ schema.properties["secret"] = API!SecretVolumeSource
  BY DEF API!Volume, API!Object
<1>6. DOMAIN inner = {"secret"} /\ inner["secret"] = Ptr(Struct(source))
  OBVIOUS
<1> HIDE DEF inner
<1>7. /\ DOMAIN outer = {"name", "inline"} /\ outer["name"] = Str("tls")
      /\ outer["inline"] = Struct(inner) /\ NotZero(outer["name"])
  BY Nonempty
<1> HIDE DEF outer, schema
<1>8. Spliced(schema, outer, inner)
  BY <1>5, <1>6, <1>7 DEF Spliced
<1>9. Conforms4(API!String, Str("tls"))
  BY PlainFields, Rises
<1>10. /\ \A f \in DOMAIN outer \ {"inline"} : Conforms4(schema.properties[f], outer[f])
       /\ \A f \in DOMAIN inner : Conforms4(schema.properties[f], inner[f])
  BY <1>4, <1>5, <1>6, <1>7, <1>9
<1> QED BY <1>1, <1>8, <1>10, SplicedConforms DEF schema

\* What a pod with a GPU tolerates.
LEMMA TolerationConforms ==
  Conforms2(API!Toleration,
            Struct([key |-> Str("nvidia.com/gpu"), effect |-> Str("NoSchedule"),
                    operator |-> Str("Exists")]))
<1> DEFINE schema == API!Toleration
           fields == [key |-> Str("nvidia.com/gpu"), effect |-> Str("NoSchedule"),
                      operator |-> Str("Exists")]
<1>1. /\ schema.type = "object" /\ schema.required = {}
      /\ {"key", "effect", "operator"} \subseteq DOMAIN schema.properties
      /\ schema.properties["key"] = API!String /\ schema.properties["effect"] = API!String
      /\ schema.properties["operator"] = API!String
  BY DEF API!Toleration, API!Object
<1>2. /\ DOMAIN fields = {"key", "effect", "operator"}
      /\ fields["key"] = Str("nvidia.com/gpu") /\ fields["effect"] = Str("NoSchedule")
      /\ fields["operator"] = Str("Exists")
  OBVIOUS
<1> HIDE DEF schema, fields
<1>3. Suits(schema, fields)
  BY <1>1, <1>2 DEF Suits
<1>4. /\ Conforms1(API!String, Str("nvidia.com/gpu")) /\ Conforms1(API!String, Str("NoSchedule"))
      /\ Conforms1(API!String, Str("Exists"))
  BY PlainFields
<1>5. \A f \in DOMAIN fields : Conforms1(schema.properties[f], fields[f])
  BY <1>1, <1>2, <1>4
<1> QED BY <1>3, <1>5, StructConforms DEF schema, fields

\* The pod.
LEMMA PodConforms ==
  ASSUME NEW name, NEW s, Listed(s)
  PROVE  Conforms8(API!PodSpec, Struct(PodFields(name, s)))
<1> DEFINE schema == API!PodSpec
           fields == PodFields(name, s)
           Names == {"automountServiceAccountToken", "containers", "serviceAccount", "dnsPolicy",
                     "restartPolicy", "schedulerName", "securityContext", "serviceAccountName",
                     "terminationGracePeriodSeconds", "tolerations", "volumes"}
           toleration == Struct([key |-> Str("nvidia.com/gpu"), effect |-> Str("NoSchedule"),
                                 operator |-> Str("Exists")])
<1>1. /\ schema.type = "object" /\ schema.required = {"containers"}
      /\ Names \subseteq DOMAIN schema.properties
  BY DEF API!PodSpec, API!Object
<1>2. /\ schema.properties["automountServiceAccountToken"] = API!Boolean
      /\ schema.properties["containers"] = API!ListOf(API!Container)
      /\ schema.properties["serviceAccount"] = API!String
      /\ schema.properties["dnsPolicy"] = API!String
      /\ schema.properties["restartPolicy"] = API!String
      /\ schema.properties["schedulerName"] = API!String
      /\ schema.properties["securityContext"] = API!PodSecurityContext
      /\ schema.properties["serviceAccountName"] = API!String
      /\ schema.properties["terminationGracePeriodSeconds"] = API!Integer
      /\ schema.properties["tolerations"] = API!ListOf(API!Toleration)
      /\ schema.properties["volumes"] = API!ListOf(API!Volume)
  BY DEF API!PodSpec, API!Object
<1>3. /\ DOMAIN fields = Names /\ NotZero(fields["containers"])
      /\ fields["containers"] = Array(<<NotebookContainer(name, s)>>)
      /\ fields["serviceAccount"] = Str(s.serviceAccountName)
      /\ fields["serviceAccountName"] = Str(s.serviceAccountName)
      /\ fields["volumes"] = Given(ShouldHaveCerts(s), Array(<<CertificateVolume(name)>>))
  BY PodFieldsOf
<1>4. /\ fields["dnsPolicy"] = Str("ClusterFirst")
      /\ fields["restartPolicy"] = Str("Always")
      /\ fields["schedulerName"] = Str("default-scheduler")
      /\ fields["securityContext"] = Ptr(Empty)
      /\ fields["terminationGracePeriodSeconds"] = Ptr(Int("120"))
  BY DEF PodFields
<1>5. /\ fields["automountServiceAccountToken"] = Ptr(Bool(s.serviceAccountName # ""))
      /\ fields["tolerations"] = Given(s.gpu, Array(<<toleration>>))
  BY PodFieldsVary
<1>6. Conforms2(API!Toleration, toleration)
  BY TolerationConforms
<1> HIDE DEF fields, schema, toleration
<1>7. ~NotZero(Zero)
  BY DEF NotZero
<1>8. Conforms7(schema.properties["automountServiceAccountToken"],
                fields["automountServiceAccountToken"])
  <2>1. Conforms7(API!Boolean, Ptr(Bool(s.serviceAccountName # "")))
    BY PlainFields, Rises
  <2> QED BY <1>2, <1>5, <2>1
<1>9. Conforms7(schema.properties["containers"], fields["containers"])
  <2>1. Conforms6(API!Container, NotebookContainer(name, s))
    BY ContainerConforms
  <2>2. Conforms7(API!ListOf(API!Container), Array(<<NotebookContainer(name, s)>>))
    BY <2>1, OneConforms
  <2> QED BY <1>2, <1>3, <2>2
<1>10. /\ Conforms7(schema.properties["serviceAccount"], fields["serviceAccount"])
       /\ Conforms7(schema.properties["serviceAccountName"], fields["serviceAccountName"])
  <2>1. Conforms7(API!String, Str(s.serviceAccountName))
    BY PlainFields, Rises
  <2> QED BY <1>2, <1>3, <2>1
<1>11. /\ Conforms7(schema.properties["dnsPolicy"], fields["dnsPolicy"])
       /\ Conforms7(schema.properties["restartPolicy"], fields["restartPolicy"])
       /\ Conforms7(schema.properties["schedulerName"], fields["schedulerName"])
  <2>1. /\ Conforms7(API!String, Str("ClusterFirst")) /\ Conforms7(API!String, Str("Always"))
        /\ Conforms7(API!String, Str("default-scheduler"))
    BY PlainFields, Rises
  <2> QED BY <1>2, <1>4, <2>1
<1>12. Conforms7(schema.properties["securityContext"], fields["securityContext"])
  <2>1. API!PodSecurityContext.type = "object" /\ API!PodSecurityContext.required = {}
    BY DEF API!PodSecurityContext, API!Object
  <2>2. Conforms7(API!PodSecurityContext, Ptr(Empty))
    BY <2>1, EmptyConforms, Rises
  <2> QED BY <1>2, <1>4, <2>2
<1>13. Conforms7(schema.properties["terminationGracePeriodSeconds"],
                 fields["terminationGracePeriodSeconds"])
  <2>1. Conforms7(API!Integer, Ptr(Int("120")))
    BY PlainFields, Rises
  <2> QED BY <1>2, <1>4, <2>1
<1>14. NotZero(fields["tolerations"]) =>
         Conforms7(schema.properties["tolerations"], fields["tolerations"])
  <2>1. Conforms3(API!ListOf(API!Toleration), Array(<<toleration>>))
    BY <1>6, OneConforms
  <2>2. Conforms7(API!ListOf(API!Toleration), Array(<<toleration>>))
    BY <2>1, Rises
  <2> QED BY <1>2, <1>5, <1>7, <2>2 DEF Given
<1>15. NotZero(fields["volumes"]) =>
         Conforms7(schema.properties["volumes"], fields["volumes"])
  <2>1. Conforms5(API!Volume, CertificateVolume(name))
    BY VolumeConforms
  <2>2. Conforms6(API!ListOf(API!Volume), Array(<<CertificateVolume(name)>>))
    BY <2>1, OneConforms
  <2>3. Conforms7(API!ListOf(API!Volume), Array(<<CertificateVolume(name)>>))
    BY <2>2, Rises
  <2> QED BY <1>2, <1>3, <1>7, <2>3 DEF Given
<1>16. Suits(schema, fields)
  BY <1>1, <1>3 DEF Suits
<1>17. \A f \in DOMAIN fields : NotZero(fields[f]) => Conforms7(schema.properties[f], fields[f])
  BY <1>3, <1>8, <1>9, <1>10, <1>11, <1>12, <1>13, <1>14, <1>15
<1> QED BY <1>16, <1>17, StructConforms DEF schema, fields

\* The template, whose metadata are its labels.
LEMMA TemplateConforms ==
  ASSUME NEW name, NEW s, Listed(s)
  PROVE  Conforms(API!PodTemplateSpec, PodTemplate(name, s))
<1> DEFINE labels == [labels |-> Map(MatchLabels(name))]
           pod == Struct(PodFields(name, s))
           fields == [metadata |-> Struct(labels), spec |-> pod]
           schema == API!PodTemplateSpec
<1>1. PodTemplate(name, s) = Struct(fields)
  BY DEF PodTemplate
<1>2. Conforms3(API!ObjectMeta, Struct(labels))
  <2> DEFINE meta == API!ObjectMeta
  <2>1. /\ meta.type = "object" /\ meta.required = {} /\ "labels" \in DOMAIN meta.properties
        /\ meta.properties["labels"] = API!MapOf(API!String)
    BY DEF API!ObjectMeta, API!Object
  <2>2. DOMAIN labels = {"labels"} /\ labels["labels"] = Map(MatchLabels(name))
    OBVIOUS
  <2> HIDE DEF labels, meta
  <2>3. Suits(meta, labels)
    BY <2>1, <2>2 DEF Suits
  <2>4. Conforms2(API!MapOf(API!String), Map(MatchLabels(name)))
    BY LabelsConform, TextMaps
  <2>5. \A f \in DOMAIN labels : Conforms2(meta.properties[f], labels[f])
    BY <2>1, <2>2, <2>4
  <2> QED BY <2>3, <2>5, StructConforms DEF meta
<1>3. Conforms8(API!PodSpec, pod)
  BY PodConforms
<1>4. /\ schema.type = "object" /\ schema.required = {}
      /\ {"metadata", "spec"} \subseteq DOMAIN schema.properties
      /\ schema.properties["metadata"] = API!ObjectMeta
      /\ schema.properties["spec"] = API!PodSpec
  BY DEF API!PodTemplateSpec, API!Object
<1> HIDE DEF labels, pod
<1>5. DOMAIN fields = {"metadata", "spec"} /\ fields["metadata"] = Struct(labels) /\ fields["spec"] = pod
  OBVIOUS
<1> HIDE DEF fields, schema
<1>6. Conforms8(API!ObjectMeta, Struct(labels))
  BY <1>2, Rises
<1>7. Suits(schema, fields)
  BY <1>4, <1>5 DEF Suits
<1>8. \A f \in DOMAIN fields : Conforms8(schema.properties[f], fields[f])
  BY <1>3, <1>4, <1>5, <1>6
<1> QED BY <1>1, <1>7, <1>8, StructConforms DEF schema

\* What labels the pods of the StatefulSet have.
LEMMA SelectorConforms ==
  ASSUME NEW name
  PROVE  Conforms(API!LabelSelector, Ptr(Struct([matchLabels |-> Map(MatchLabels(name))])))
<1> DEFINE schema == API!LabelSelector
           fields == [matchLabels |-> Map(MatchLabels(name))]
<1>1. /\ schema.type = "object" /\ schema.required = {}
      /\ "matchLabels" \in DOMAIN schema.properties
      /\ schema.properties["matchLabels"] = API!MapOf(API!String)
  BY DEF API!LabelSelector, API!Object
<1>2. DOMAIN fields = {"matchLabels"} /\ fields["matchLabels"] = Map(MatchLabels(name))
  OBVIOUS
<1> HIDE DEF schema, fields
<1>3. Suits(schema, fields)
  BY <1>1, <1>2 DEF Suits
<1>4. Conforms2(API!MapOf(API!String), Map(MatchLabels(name)))
  BY LabelsConform, TextMaps
<1>5. \A f \in DOMAIN fields : Conforms2(schema.properties[f], fields[f])
  BY <1>1, <1>2, <1>4
<1>6. Conforms3(schema, Ptr(Struct(fields)))
  BY <1>3, <1>5, StructConforms
<1> QED BY <1>6, Rises DEF schema, fields

\* The parts of the StatefulSet.
LEMMA StatefulSetConforms ==
  ASSUME NEW name, name # "", NEW kind, NEW s, Listed(s)
  PROVE  LET sts == CalculateStatefulSet(name, kind, s) IN
         /\ Conforms(API!ObjectMeta, sts.object["metadata"])
         /\ Conforms(API!LabelSelector, sts.object["spec"].object["selector"])
         /\ Conforms(API!PodTemplateSpec, sts.object["spec"].object["template"])
<1> DEFINE selector == Ptr(Struct([matchLabels |-> Map(MatchLabels(name))]))
           inner == [replicas |-> Ptr(Int("1")), selector |-> selector,
                     serviceName |-> Str(resourceName(name)), template |-> PodTemplate(name, s)]
           outer == [metadata |-> Metadata(name, kind, Zero), spec |-> Struct(inner)]
           sts == Struct(outer)
<1>1. CalculateStatefulSet(name, kind, s) = sts
  BY DEF CalculateStatefulSet
<1>2. NotZero(selector) /\ NotZero(PodTemplate(name, s)) /\ NotZero(Metadata(name, kind, Zero))
  BY Nonempty DEF PodTemplate, Metadata
<1>3. /\ Conforms(API!LabelSelector, selector)
      /\ Conforms(API!PodTemplateSpec, PodTemplate(name, s))
  BY SelectorConforms, TemplateConforms
<1> HIDE DEF selector
<1>4. /\ "selector" \in DOMAIN inner /\ inner["selector"] = selector
      /\ "template" \in DOMAIN inner /\ inner["template"] = PodTemplate(name, s)
  OBVIOUS
<1> HIDE DEF inner
<1>5. /\ "metadata" \in DOMAIN outer /\ outer["metadata"] = Metadata(name, kind, Zero)
      /\ "spec" \in DOMAIN outer /\ outer["spec"] = Struct(inner)
  OBVIOUS
<1> HIDE DEF outer
<1>6. sts.object["metadata"] = Metadata(name, kind, Zero)
  BY <1>2, <1>5, StructField
<1>7. sts.object["spec"] = Struct(inner)
  BY <1>5, Nonempty, StructField
<1>8. /\ Struct(inner).object["selector"] = selector
      /\ Struct(inner).object["template"] = PodTemplate(name, s)
  BY <1>2, <1>4, StructField
<1>9. Conforms(API!ObjectMeta, Metadata(name, kind, Zero))
  <2>1. Conforms4(API!ObjectMeta, Metadata(name, kind, Zero))
    BY MetadataConforms
  <2> QED BY <2>1, Rises
<1> HIDE DEF sts
<1> QED BY <1>1, <1>3, <1>6, <1>7, <1>8, <1>9

\* The metadata of the ingress.
LEMMA IngressConforms ==
  ASSUME NEW name, name # "", NEW kind, NEW s
  PROVE  Conforms(API!ObjectMeta, CalculateIngress(name, kind, s).object["metadata"])
<1> DEFINE host == name \o "." \o s.host
           backend == Backend(name, s)
           acme == s.tls = Acme
           tlsAcme == "kubernetes.io/tls-acme" :> Str("true")
           passthrough == "nginx.ingress.kubernetes.io/ssl-passthrough" :> Str("true")
           protocol == "nginx.ingress.kubernetes.io/backend-protocol" :> Str("HTTPS")
           redirect == "nginx.ingress.kubernetes.io/ssl-redirect" :> Str("true")
           class == "kubernetes.io/ingress.class" :> Str("nginx")
           annotations ==
             class @@ IF ~ShouldHaveCerts(s) THEN <<>>
                      ELSE (IF acme THEN tlsAcme ELSE passthrough) @@ protocol @@ redirect
           path == Struct([path |-> Str("/"),
                           backend |-> Struct([serviceName |-> Str(backend.serviceName),
                                               servicePort |-> Int(backend.servicePort)])])
           tls == Struct([hosts |-> Array(<<Str(host)>>),
                          secretName |-> Given(acme, Str(IngressTLSSecretName(name)))])
           spec == Struct([
               rules |-> Array(<<Struct([host |-> Str(host),
                                         inline |-> Struct([http |-> Ptr(Struct([
                                           paths |-> Array(<<path>>)]))])])>>),
               tls |-> Given(ShouldHaveCerts(s), Array(<<tls>>))])
           fields == [metadata |-> Metadata(name, kind, Map(annotations)), spec |-> spec]
<1>1. CalculateIngress(name, kind, s) = Struct(fields)
  BY DEF CalculateIngress
<1>2. TextMap(annotations)
  <2>1. /\ TextMap(class) /\ TextMap(tlsAcme) /\ TextMap(passthrough)
        /\ TextMap(protocol) /\ TextMap(redirect) /\ TextMap(<<>>)
    BY TextMaps
  <2> HIDE DEF class, tlsAcme, passthrough, protocol, redirect
  <2>2. TextMap((IF acme THEN tlsAcme ELSE passthrough) @@ protocol @@ redirect)
    <3> DEFINE first == IF acme THEN tlsAcme ELSE passthrough
    <3>1. TextMap(first)
      BY <2>1
    <3> HIDE DEF first
    <3>2. TextMap(first @@ protocol)
      BY <2>1, <3>1, TextMaps
    <3>3. TextMap(first @@ protocol @@ redirect)
      BY <2>1, <3>2, TextMaps
    <3> QED BY <3>3 DEF first
  <2> DEFINE secure == (IF acme THEN tlsAcme ELSE passthrough) @@ protocol @@ redirect
             rest == IF ~ShouldHaveCerts(s) THEN <<>> ELSE secure
  <2>3. annotations = class @@ rest
    OBVIOUS
  <2>4. TextMap(rest)
    <3> HIDE DEF secure
    <3> QED BY <2>1, <2>2 DEF secure
  <2> HIDE DEF annotations, rest
  <2> QED BY <2>1, <2>3, <2>4, TextMaps
<1> HIDE DEF annotations, spec
<1>3. Conforms4(API!ObjectMeta, Metadata(name, kind, Map(annotations)))
  BY <1>2, MetadataConforms
<1>4. Conforms(API!ObjectMeta, Metadata(name, kind, Map(annotations)))
  BY <1>3, Rises
<1>5. "metadata" \in DOMAIN fields /\ fields["metadata"] = Metadata(name, kind, Map(annotations))
  OBVIOUS
<1>6. NotZero(Metadata(name, kind, Map(annotations)))
  BY Nonempty DEF Metadata
<1> HIDE DEF fields
<1>7. Struct(fields).object["metadata"] = fields["metadata"]
  BY <1>5, <1>6, StructField
<1> QED BY <1>1, <1>4, <1>5, <1>7

\* Everything that the operator creates for any notebook conforms to the schema
\* of its kind: there is nothing in it that the schema does not know, nothing of
\* another type, and nothing that is required is missing, the kind of the owner
\* included, whether or not the lister returned it.  Nine levels of schemas are
\* enough for the deepest resource, the template.
THEOREM ResourcesAlwaysConform == Spec => []ResourcesConform
<1>1. Comparable => ResourcesConform
  <2> SUFFICES ASSUME Comparable, Servable, NEW kind \in {"", "Notebook"}
               PROVE  LET sts == CalculateStatefulSet(NotebookName, kind, Wanted) IN
                      /\ Conforms(API!Service, CalculateService(NotebookName, kind))
                      /\ Conforms(API!Secret, CalculateSecret(NotebookName, kind, Wanted))
                      /\ Conforms(API!ObjectMeta, sts.object["metadata"])
                      /\ Conforms(API!LabelSelector, sts.object["spec"].object["selector"])
                      /\ Conforms(API!PodTemplateSpec, sts.object["spec"].object["template"])
                      /\ Conforms(API!ObjectMeta,
                                  CalculateIngress(NotebookName, kind, Wanted).object["metadata"])
    BY DEF ResourcesConform
  <2>1. document # Zero
    BY DEF Servable, Synced
  <2>2. Listed(Wanted) /\ NotebookName # ""
    BY <2>1, SoundSpec, DefaultsRegular, NameAssumption DEF Wanted, Regular
  <2> QED BY <2>2, ServiceConforms, SecretConforms, StatefulSetConforms, IngressConforms
<1> QED BY <1>1, AlwaysComparable, PTL
=============================================================================
