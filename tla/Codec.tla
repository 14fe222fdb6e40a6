------------------------------- MODULE Codec -------------------------------
(***************************************************************************)
(* How values travel over the bus: src/include/.../codec.h, which encodes  *)
(* what it is given and decodes it field by field, and service/state.cpp.  *)
(* A message is a chain of arguments, each with its type, its value and    *)
(* what follows it.  Encoders put their arguments in front of a message,   *)
(* decoders give the value they read and the rest.  An Optional is a set   *)
(* of at most one element.  Numbers are kept whole: quantities and         *)
(* coordinates travel as doubles of their value in the base unit.          *)
(***************************************************************************)
EXTENDS Integers

End == [type |-> "invalid"]

\* Message::Writer (external)
Push(t, v, rest) == [type |-> t, value |-> v, rest |-> rest]

\* Message::Reader (external): another type is an exception, which is
\* represented by a value that nothing encodes and by the end of the message.
Pop(t, msg) ==
    IF msg.type = t THEN [value |-> msg.value, rest |-> msg.rest]
                    ELSE [value |-> "error", rest |-> End]

-----------------------------------------------------------------------------
\* Quantity and Coordinate: a double
EncodeQuantity(q, rest) == Push("floating_point", q, rest)
DecodeQuantity(msg) == Pop("floating_point", msg)

\* Optional: whether there is a value, and the value (here: a quantity)
EncodeOptional(o, rest) ==
    IF o = {} THEN Push("boolean", FALSE, rest)
    ELSE Push("boolean", TRUE, EncodeQuantity(CHOOSE q \in o : TRUE, rest))

DecodeOptional(msg) ==
    LET has == Pop("boolean", msg)
        q   == DecodeQuantity(has.rest) IN
    IF has.value = TRUE THEN [value |-> {q.value}, rest |-> q.rest]
                        ELSE [value |-> {}, rest |-> has.rest]

EncodePosition(p, rest) ==
    EncodeQuantity(p.latitude,
      EncodeQuantity(p.longitude,
        EncodeOptional(p.altitude,
          EncodeOptional(p.horizontal,
            EncodeOptional(p.vertical, rest)))))

DecodePosition(msg) ==
    LET latitude   == DecodeQuantity(msg)
        longitude  == DecodeQuantity(latitude.rest)
        altitude   == DecodeOptional(longitude.rest)
        horizontal == DecodeOptional(altitude.rest)
        vertical   == DecodeOptional(horizontal.rest) IN
    [value |-> [latitude |-> latitude.value, longitude |-> longitude.value,
                altitude |-> altitude.value,
                horizontal |-> horizontal.value, vertical |-> vertical.value],
     rest |-> vertical.rest]

\* Update: the value and the time in the ticks of the clock.  Headings and
\* velocities are quantities.
EncodeUpdate(u, rest) == EncodePosition(u.value, Push("int64", u.when, rest))

DecodeUpdate(msg) ==
    LET value == DecodePosition(msg)
        when  == Pop("int64", value.rest) IN
    [value |-> [value |-> value.value, when |-> when.value], rest |-> when.rest]

-----------------------------------------------------------------------------
\* Criteria, with a horizontal accuracy that is not optional
EncodeCriteria(c, rest) ==
    Push("boolean", c.position, Push("boolean", c.altitude,
      Push("boolean", c.heading, Push("boolean", c.velocity,
        EncodeQuantity(c.horizontal,
          EncodeOptional(c.vertical,
            EncodeOptional(c.velocityAccuracy,
              EncodeOptional(c.headingAccuracy, rest))))))))

DecodeCriteria(msg) ==
    LET position   == Pop("boolean", msg)
        altitude   == Pop("boolean", position.rest)
        heading    == Pop("boolean", altitude.rest)
        velocity   == Pop("boolean", heading.rest)
        horizontal == DecodeQuantity(velocity.rest)
        vertical   == DecodeOptional(horizontal.rest)
        speed      == DecodeOptional(vertical.rest)
        direction  == DecodeOptional(speed.rest) IN
    [value |-> [position |-> position.value, altitude |-> altitude.value,
                heading |-> heading.value, velocity |-> velocity.value,
                horizontal |-> horizontal.value, vertical |-> vertical.value,
                velocityAccuracy |-> speed.value, headingAccuracy |-> direction.value],
     rest |-> direction.rest]

-----------------------------------------------------------------------------
\* SpaceVehicle::Key: type and id, both unsigned
EncodeKey(k, rest) == Push("uint32", k.type, Push("uint32", k.id, rest))

DecodeKey(msg) ==
    LET type == Pop("uint32", msg)
        id   == Pop("uint32", type.rest) IN
    [value |-> [type |-> type.value, id |-> id.value], rest |-> id.rest]

\* SpaceVehicle: a structure, with its key inside
EncodeVehicle(sv, rest) ==
    Push("structure",
         EncodeKey(sv.key, Push("floating_point", sv.snr,
           Push("boolean", sv.almanac, Push("boolean", sv.ephimeris, Push("boolean", sv.used,
             EncodeQuantity(sv.azimuth, EncodeQuantity(sv.elevation, End))))))),
         rest)

DecodeVehicle(msg) ==
    LET sub       == Pop("structure", msg)
        key       == DecodeKey(sub.value)
        snr       == Pop("floating_point", key.rest)
        almanac   == Pop("boolean", snr.rest)
        ephimeris == Pop("boolean", almanac.rest)
        used      == Pop("boolean", ephimeris.rest)
        azimuth   == DecodeQuantity(used.rest)
        elevation == DecodeQuantity(azimuth.rest) IN
    [value |-> [key |-> key.value, snr |-> snr.value, almanac |-> almanac.value,
                ephimeris |-> ephimeris.value, used |-> used.value,
                azimuth |-> azimuth.value, elevation |-> elevation.value],
     rest |-> sub.rest]

\* The map of visible space vehicles: an array of the vehicles, in no order
\* that matters, from which the map is built again by the keys inside.
EncodeVehicles(svs, rest) ==
    Push("array", {EncodeVehicle(svs[k], End) : k \in DOMAIN svs}, rest)

DecodeElements(ms) == {DecodeVehicle(m).value : m \in ms}

ByKey(all) == [k \in {sv.key : sv \in all} |-> CHOOSE sv \in all : sv.key = k]

DecodeVehicles(msg) ==
    LET sub == Pop("array", msg) IN
    [value |-> ByKey(DecodeElements(sub.value)), rest |-> sub.rest]

-----------------------------------------------------------------------------
\* service::State travels as its name, by the tables of state.cpp; the other
\* enumerations and sets of flags travel as integers.
States == 0 .. 2
StateName == [s \in States |-> IF s = 0 THEN "disabled" ELSE IF s = 1 THEN "enabled" ELSE "active"]
StateNamed(name) == CHOOSE s \in States : StateName[s] = name

EncodeState(s, rest) == Push("string", StateName[s], rest)

DecodeState(msg) ==
    LET name == Pop("string", msg) IN
    [value |-> StateNamed(name.value), rest |-> name.rest]

Flags == 0 .. 15
EncodeFlags(n, rest) == Push("int32", n, rest)
DecodeFlags(msg) == Pop("int32", msg)
=============================================================================
