------------------------------ MODULE Segments ------------------------------
(***************************************************************************)
(* Segments: SubscribersService.findBySegment                              *)
(* (apps/notiflo/src/app/subscribers), which makes a list of filters into  *)
(* one MongoDB query with one condition per field.  contains is eq and in  *)
(* a set; numbers stand for what the fields hold.                          *)
(***************************************************************************)
EXTENDS Integers, Sequences, SequencesExt

CONSTANTS Fields,       \* beside organizationId
          FieldValues, Missing,
          MaxFilters    \* bound

ASSUME SegmentsAssumption == MaxFilters \in Nat

AllFields == Fields \cup {"organizationId"}

Filters == [field : AllFields, operator : {"eq", "ne", "gt", "lte"}, value : FieldValues]

Documents == [Fields -> FieldValues \cup {Missing}]   \* each found with its organization

VARIABLE filters

SegmentInit == filters \in SeqOf(Filters, MaxFilters)

-----------------------------------------------------------------------------
(* MongoDB: a document without the field is only unequal to a value.       *)
Holds(filter, value) ==
  IF value = Missing THEN filter.operator = "ne"
  ELSE CASE filter.operator = "eq" -> value = filter.value [] filter.operator = "ne" -> value # filter.value
         [] filter.operator = "gt" -> value > filter.value [] filter.operator = "lte" -> value <= filter.value

NamedFields(list) == {list[i].field : i \in DOMAIN list}

OwnOrganization(organization) == [field |-> "organizationId", operator |-> "eq", value |-> organization]

QueryAnew(organization, list) ==   \* mutant: every filter starts the query anew
  [field \in {list[i].field : i \in {Len(list)} \cap DOMAIN list} |-> list[Len(list)]]

(* Each filter sets the condition of its field, so the last one counts.    *)
Query(organization, list) ==
  [field \in {"organizationId"} \cup NamedFields(list) |->
     IF field \notin NamedFields(list) THEN OwnOrganization(organization)
     ELSE list[Max({i \in DOMAIN list : list[i].field = field})]]

FindBySegment(organization, list) ==
  LET query == Query(organization, list)
  IN  {found \in FieldValues \X Documents :
         \A field \in DOMAIN query :
           Holds(query[field], IF field = "organizationId" THEN found[1] ELSE found[2][field])}

(* findBySegment finds who meets every filter, in one organization: each   *)
(* filter more narrows the segment, unless it names a field again, whose   *)
(* condition it then replaces.                                             *)
SegmentOnlyNarrows ==
  \A organization \in FieldValues, i \in DOMAIN filters :
    (filters[i].field # "organizationId" /\ \A j \in 1..(i - 1) : filters[j].field # filters[i].field)
    => FindBySegment(organization, SubSeq(filters, 1, i))
         = {found \in FindBySegment(organization, SubSeq(filters, 1, i - 1)) :
              Holds(filters[i], found[2][filters[i].field])}

=============================================================================
