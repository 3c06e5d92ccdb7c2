---------------------------- MODULE LandRecords ----------------------------
(***************************************************************************)
(* What a state's land-record portal says of a parcel and what the case    *)
(* file makes of it: the adapters app/integrations/mock.py and app/        *)
(* integrations/telangana_dharani.py, and app/services/landrecords.py.     *)
(* Both adapters make their record of the parcel on file and change it as  *)
(* an entry of the portal (in the code, hashes of the survey number) says. *)
(* Encumbrances and pending mutations, which a report only passes on, are  *)
(* left out.                                                               *)
(*                                                                         *)
(* An area is in square metres, the fourth decimal of a hectare, to which  *)
(* the adapters round what they change; areas on file may be finer than    *)
(* that and are whole here. In the middle between two, and at exactly the  *)
(* tolerance, floating point may go either way; no property depends on     *)
(* which.                                                                  *)
(***************************************************************************)
EXTENDS Rounding

CONSTANT Drifts      \* percent by which a portal's area may differ

Adapter == {"mock", "telangana_dharani"}

\* How a portal writes the owner's name.
Spelling == {"same", "honorific", "variant"}

PortalEntry ==
    [found : {"yes", "absent", "unreachable"}, drift : Drifts \cup {0}, name : Spelling]

Drifted(area, drift) == IF drift = 0 THEN area ELSE Round(area * (100 + drift), 100)

\* Mutant of ToExtent: the extent is kept in hundredths of an acre.
ToExtentHundredths(area) == 10 * Round(area * 247105, 10000000)

\* Hectares to thousandths of an acre and back, as _dharani_record and
\* _translate convert: 1 ha = 2.47105 acres.
ToExtent(area) == Round(area * 247105, 1000000)

FromExtent(extent) == Round(extent * 1000000, 247105)

AreaUpstream(adapter, area, drift) ==
    IF adapter = "mock" THEN Drifted(area, drift)
    ELSE FromExtent(Drifted(ToExtent(area), drift))

\* The record an adapter makes of a parcel on file.
Record(adapter, parcel, entry) ==
    [area |-> AreaUpstream(adapter, parcel.area, entry.drift), owner |-> parcel.owner,
     name |-> entry.name]

-----------------------------------------------------------------------------
\* AREA_TOLERANCE_FRACTION, in percent.
AreaTolerance == 1

AreaDiffers(area, upstream) == Abs(upstream - area) * 100 > AreaTolerance * area

\* compare: the area first, then the owner's name without its honorific.
Compare(parcel, record) ==
    IF AreaDiffers(parcel.area, record.area) THEN "area_mismatch"
    ELSE IF record.owner # parcel.owner \/ record.name = "variant" THEN "owner_mismatch"
    ELSE "matched"
=============================================================================
