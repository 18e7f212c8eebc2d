------------------------------ MODULE VendorInit ------------------------------
(***************************************************************************)
(* init/init_shennong.cpp: at boot, before any service runs, init detects  *)
(* the variant of the device and overrides the properties that name it.    *)
(*                                                                         *)
(* External: the property area of the system, and the build that filled it.*)
(***************************************************************************)
EXTENDS Naturals, Sequences

CONSTANTS Images   \* the sets of partitions whose build properties are loaded

source_partitions ==
  <<"", "bootimage.", "odm.", "product.", "system.", "system_dlkm.", "system_ext.",
    "vendor.", "vendor_dlkm.">>

Partitions == 1 .. Len(source_partitions)

ASSUME ImagesAssumption == Images \subseteq SUBSET Partitions

Kinds == <<"device", "model", "name">>

VARIABLES
  area,   \* "ro.product." + partition + kind, and the hardware revision, to a value
  sku,    \* what the boot loader left in ro.boot.hardware.sku
  place   \* which property comes next: the kind, and within it the partition

initVars == <<area, sku, place>>

Revision == <<"revision", 0>>
Names == {Kinds[k] : k \in DOMAIN Kinds} \X Partitions \cup {Revision}

\* Two boards; a boot loader that says nothing leaves the empty string of GetProperty.
Sku == {"", "shennong", "shennong_cn"}

VendorInitInit ==
  /\ \E image \in Images :
       area = [n \in {n \in Names : n[2] \in image} |-> "built"]
  /\ sku \in Sku
  /\ place = <<1, 1>>

\* Mutant: a property that is not there yet is forgotten.
property_update(name, value) ==
  area' = IF name \in DOMAIN area THEN [area EXCEPT ![name] = value] ELSE area

\* __system_property_update where the property exists, __system_property_add elsewhere.
property_override(name, value) ==
  area' = [n \in DOMAIN area \cup {name} |-> IF n = name THEN value ELSE area[n]]

ValueOf(kind) ==
  CASE kind = "device" -> sku
    [] kind = "model"  -> "23116PN5BC"
    [] kind = "name"   -> "shennong"

\* One turn of the loop in set_ro_build_prop, or the last line.
vendor_load_properties ==
  LET k == place[1]
      p == place[2] IN
  /\ k <= Len(Kinds) + 1
  /\ IF k > Len(Kinds)
       THEN /\ property_override(Revision, sku)
            /\ place' = <<k + 1, 1>>
       ELSE /\ property_override(<<Kinds[k], p>>, ValueOf(Kinds[k]))
            /\ place' = IF p = Len(source_partitions) THEN <<k + 1, 1>> ELSE <<k, p + 1>>
  /\ UNCHANGED sku

Loaded == place[1] = Len(Kinds) + 2

\* Whatever was built into which partition: when the services start, every partition
\* names the same device, model and product, and the revision is that of the device.
VariantIsConsistent ==
  Loaded => /\ DOMAIN area = Names
            /\ \A n, m \in Names : n[1] = m[1] => area[n] = area[m]
            /\ area[Revision] = area[<<"device", 1>>]

=============================================================================
