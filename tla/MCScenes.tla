------------------------------ MODULE MCScenes ------------------------------
(***************************************************************************)
(* Small instances of the cashback module side by side, one of which runs: *)
(*   menu        one account, two requests: periods, menu rows, selections *)
(*   limit       three menu rows of a period of one slot, two requests     *)
(*   records     two accounts, two requests: whatever ties two records     *)
(*   slots, evidence, activation   one request at a time                   *)
(*   accounts    two accounts whose menu rows two requests edit            *)
(* An instance may use fewer ids than are declared; as all of them but     *)
(* those it uses are blank there, permuting the whole set stays sound.     *)
(***************************************************************************)
EXTENDS MCCashback, CashbackEvidence, CashbackSlots

VARIABLE scene

MenuOps ==
  {"CreateBankClient", "DeleteBankClient", "CreateOfferPeriod", "DeleteOfferPeriod",
   "SetPeriodMaxOverride", "CreateCategoryOffer", "DeleteCategoryOffer",
   "CreateSelection", "DeleteSelection", "Restart"}
LimitOps ==
  {"CreateBankClient", "CreateOfferPeriod", "CreateCategoryOffer", "CreateSelection"}
RecordsOps ==
  {"CreateBankClient", "CreateOfferPeriod", "DeleteOfferPeriod", "AttachScreenshot",
   "DetachScreenshot", "CreatePartnerOffer", "UpdatePartnerOffer", "DeletePartnerOffer",
   "AttachPartner", "DetachPartner", "Save", "Restart"}
SlotsOps ==
  {"CreateBankClient", "DeleteBankClient", "CreateOfferPeriod", "DeleteOfferPeriod",
   "CreateCategoryOffer", "UpdateCategoryOffer", "DeleteCategoryOffer", "CreateSelection",
   "DeleteSelection", "Restart"}
EvidenceOps ==
  {"CreateBankClient", "CreateOfferPeriod", "DeleteOfferPeriod", "AttachScreenshot",
   "DetachScreenshot", "CreatePartnerOffer", "DeletePartnerOffer", "AttachPartner",
   "DetachPartner", "Save"}
ActivationOps ==
  {"CreateBankClient", "UpdateBankClient", "CreatePartnerOffer", "UpdatePartnerOffer",
   "EndPartnerOffer", "DeletePartnerOffer", "Restart"}
AccountsOps ==
  {"CreateBankClient", "CreateOfferPeriod", "DeleteOfferPeriod", "CreateCategoryOffer",
   "UpdateCategoryOffer", "DeleteCategoryOffer", "CreateSelection"}

\* smaller sets of ids (constants by name are evaluated once)
Nobody == {}
OnlyU1 == {u1}
OnlyC1 == {c1}
OnlyP1 == {p1}
OnlyO1 == {o1}
TwoO   == {o1, o2}
OnlyS1 == {s1}
TwoS   == {s1, s2}
OnlyW1 == {w1}
OnlyA1 == {a1}
TwoP   == {p1, p2}
OneDay == {1}
TwoDays == {1, 2}
Unmapped == {None}
Regular == {FALSE}
AnyDay  == {TRUE}
ByHand  == {2}
OnA1 == {{}, {a1}}

Menu == INSTANCE Cashback WITH
  Users <- OnlyU1, ClientIds <- OnlyC1, PeriodIds <- TwoP, OfferIds <- OnlyO1,
  SelectionIds <- TwoS, PartnerIds <- Nobody, AttachmentIds <- Nobody, Moments <- Nobody,
  AttachLists <- NoLists, Mappings <- Unmapped, Spans <- Crossing, Overrides <- ByHand,
  Backfills <- AnyDay, Days <- OneDay, Ops <- MenuOps

Limit == INSTANCE Cashback WITH
  Users <- OnlyU1, ClientIds <- OnlyC1, PeriodIds <- OnlyP1, PartnerIds <- Nobody,
  AttachmentIds <- Nobody, Moments <- Nobody, AttachLists <- NoLists, Mappings <- Unmapped,
  Spans <- OneMonth, Overrides <- Nobody, Backfills <- Regular, Days <- TwoDays,
  Ops <- LimitOps

Records == INSTANCE Cashback WITH
  PeriodIds <- OnlyP1, ClientIds <- OnlyC1, OfferIds <- Nobody, SelectionIds <- Nobody, PartnerIds <- OnlyW1,
  AttachmentIds <- OnlyA1, Moments <- Nobody, AttachLists <- OnA1, Mappings <- Unmapped,
  Ops <- RecordsOps

Slots == INSTANCE Cashback WITH
  PeriodIds <- OnlyP1, Users <- OnlyU1, ClientIds <- OnlyC1, OfferIds <- TwoO, SelectionIds <- TwoS,
  PartnerIds <- Nobody, AttachmentIds <- Nobody, Moments <- Nobody, Days <- OneDay,
  AttachLists <- NoLists, Mappings <- Unmapped, Ops <- SlotsOps

Evidence == INSTANCE CashbackEvidence WITH
  PeriodIds <- OnlyP1, Users <- OnlyU1, ClientIds <- OnlyC1, OfferIds <- Nobody, SelectionIds <- Nobody,
  PartnerIds <- OnlyW1, Moments <- Nobody, AttachLists <- ListsOfTwo, Mappings <- Unmapped,
  Ops <- EvidenceOps

Activation == INSTANCE Cashback WITH
  Users <- OnlyU1, ClientIds <- OnlyC1, PeriodIds <- Nobody, OfferIds <- Nobody,
  SelectionIds <- Nobody, AttachmentIds <- Nobody, AttachLists <- NoLists,
  Mappings <- Unmapped, Ops <- ActivationOps

Accounts == INSTANCE Cashback WITH
  PeriodIds <- OnlyP1, OfferIds <- OnlyO1, SelectionIds <- OnlyS1, PartnerIds <- Nobody, AttachmentIds <- Nobody,
  Moments <- Nobody, AttachLists <- NoLists, Mappings <- Mapped, Days <- OneDay,
  Ops <- AccountsOps

\* ids are interchangeable: in "menu" they are given in order
Ordered == (p2 \in spent' => p1 \in spent') /\ (s2 \in spent' => s1 \in spent')

\* in "limit" menu rows take theirs in order, and the
\* selection of a row, of which there is one, has the id that goes with the row's
InOrder ==
  /\ {o.id : o \in offers'} \in {{}, {o1}, {o1, o2}, OfferIds}
  /\ \A s \in selections' : <<s.id, s.offer>> \in {<<s1, o1>>, <<s2, o2>>, <<s3, o3>>}

OneAtATime == \E r \in Reqs : \A q \in Reqs \ {r} : req'[q] = Blank

ScenesInit ==
  /\ scene \in {"menu", "limit", "records", "slots", "evidence", "activation", "accounts"}
  /\ EvidenceInit /\ SlotsInit

ScenesNext ==
  /\ \/ scene = "menu" /\ Menu!Next /\ Ordered /\ UNCHANGED wasLinked
     \/ scene = "limit" /\ Limit!Next /\ InOrder /\ UNCHANGED wasLinked
     \/ scene = "records" /\ Records!Next /\ UNCHANGED wasLinked
     \/ scene = "slots" /\ Slots!Next /\ OneAtATime /\ UNCHANGED wasLinked
     \/ scene = "evidence" /\ Evidence!EvidenceNext /\ OneAtATime
     \/ scene = "activation" /\ Activation!Next /\ OneAtATime /\ UNCHANGED wasLinked
     \/ scene = "accounts" /\ Accounts!Next /\ UNCHANGED wasLinked
  /\ Noted
  /\ UNCHANGED scene

ScenesSpec == ScenesInit /\ [][ScenesNext]_<<evidenceVars, slotsVars, scene>>

Symmetry == UNION {Permutations(S) : S \in {Users, ClientIds, Canons, Reqs}}
=============================================================================
