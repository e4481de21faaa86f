----------------------- MODULE MCSchemaRepairWorkflow -----------------------
(***************************************************************************)
(* One table with three columns in its baseline, a pair of similar column  *)
(* names that compete for one hint, and files that drift in every way.     *)
(***************************************************************************)
EXTENDS SchemaRepairWorkflow, TLC

MCNames == {"id", "mail", "age", "email", "emails"}

MCSimilarity ==
  [pair \in MCNames \X MCNames |->
     CASE pair = <<"mail", "email">> -> 89
       [] pair = <<"mail", "emails">> -> 80
       [] pair = <<"age", "email">> -> 50
       [] OTHER -> 20]

Expected == "id" :> "int64" @@ "mail" :> "string" @@ "age" :> "int64"

MCBaselines == {Expected, None}

WithHeader(columns) == [header |-> TRUE, columns |-> columns]

MCFiles ==
  {WithHeader(Expected),
   [header |-> FALSE, columns |-> Expected],
   \* a renamed column, a new one and a missing one
   WithHeader("id" :> "int64" @@ "email" :> "string" @@ "emails" :> "string"),
   \* only a type has changed
   WithHeader("id" :> "int64" @@ "mail" :> "int64" @@ "age" :> "int64"),
   \* a column is missing, without and with one too many
   WithHeader("id" :> "int64" @@ "mail" :> "string"),
   WithHeader("id" :> "int64" @@ "mail" :> "string" @@ "emails" :> "string"),
   \* a type has changed to text, and a column is missing
   WithHeader("id" :> "string" @@ "mail" :> "string")}
=============================================================================
