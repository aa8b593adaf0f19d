----------------------------- MODULE DBusMessages -----------------------------
(***************************************************************************)
(* The messages that the client library and the agent exchange, as both    *)
(* use libdbus to write and to read them.  A value on the wire carries its *)
(* type: <<"i", 3>> is an INT32.                                           *)
(***************************************************************************)
EXTENDS Naturals, Sequences, PkValues

\* "/org/perfkit/Agent/<object>/<id>"; the manager's path has no number.
Path(object, id) == [object |-> object, id |-> id]
ManagerPath      == Path("Manager", NULL)

Int32(v)       == <<"i", v>>
Boolean(v)     == <<"b", v>>
ObjectPath(p)  == <<"o", p>>
String(v)      == <<"s", v>>
StringArray(v) == <<"as", v>>
PathArray(v)   == <<"ao", v>>

\* Both ends write "" for a string that is NULL, and an empty array for a
\* vector that is NULL.
NonNull(v)  == IF v = NULL THEN Empty ELSE v
NonNullV(v) == IF v = NULL THEN <<>> ELSE v

\* g_time_val_to_iso8601 and g_time_val_from_iso8601.
Iso8601(time)     == <<"iso8601", time>>
FromIso8601(text) == text[2]

\* sscanf of a path against the format of one kind of object: the number, or
\* what the variable held before when the format does not match.
Scan(object, path, before) == IF path.object = object THEN path.id ELSE before
ScanAll(object, paths) == [k \in DOMAIN paths |-> Scan(object, paths[k], 0)]

MethodCall(path, interface, member, args) ==
  [path |-> path, interface |-> interface, member |-> member, args |-> args]
MethodReturn(args) == [type |-> "return", name |-> NULL, args |-> args]
Error(name, text)  == [type |-> "error", name |-> name, args |-> <<String(text)>>]

\* dbus_message_get_args: the values asked for must be there with their
\* types; whatever follows them is not looked at.
Matches(signature, args) ==
  /\ Len(signature) <= Len(args)
  /\ \A k \in DOMAIN signature : args[k][1] = signature[k]
Arg(message, k) == message.args[k][2]
=============================================================================
