------------------------------- MODULE AST -------------------------------
(* The nodes of the abstract syntax tree (ast/AST.ts), as records that hold *)
(* what the constructor of the class stores.  A node of the same class has  *)
(* the same fields; None stands for a field that is undefined.  What later   *)
(* passes attach to a node (symbol tables, types, uses, locations) is not    *)
(* part of the tree the builder makes and the printer reads.                 *)

CONSTANT MaxScriptNumber   \* the largest script number, 2^63 - 1

None == [node |-> "None"]

SourceFileNode(contract) == [node |-> "SourceFile", contract |-> contract]
ContractNode(name, parameters, functions, functionParameters, stateScript, statements) ==
  [node |-> "Contract", name |-> name, parameters |-> parameters,
   functions |-> functions, functionParameters |-> functionParameters,
   stateScript |-> stateScript, statements |-> statements]
FunctionDefinitionNode(name, parameters, body) ==
  [node |-> "FunctionDefinition", name |-> name, parameters |-> parameters, body |-> body]
ParameterNode(type, name, modifier) ==
  [node |-> "Parameter", type |-> type, name |-> name, modifier |-> modifier]

VariableDefinitionNode(type, modifier, name, expression) ==
  [node |-> "VariableDefinition", type |-> type, modifier |-> modifier,
   name |-> name, expression |-> expression]
TupleAssignmentNode(var1, var2, tuple) ==
  [node |-> "TupleAssignment", var1 |-> var1, var2 |-> var2, tuple |-> tuple]
AssignNode(identifier, expression) ==
  [node |-> "Assign", identifier |-> identifier, expression |-> expression]
TimeOpNode(timeOp, expression) ==
  [node |-> "TimeOp", timeOp |-> timeOp, expression |-> expression]
RequireNode(expression) == [node |-> "Require", expression |-> expression]
BranchNode(condition, ifBlock, elseBlock) ==
  [node |-> "Branch", condition |-> condition, ifBlock |-> ifBlock, elseBlock |-> elseBlock]
BlockNode(statements) == [node |-> "Block", statements |-> statements]

CastNode(type, expression, size) ==
  [node |-> "Cast", type |-> type, expression |-> expression, size |-> size]
FunctionCallNode(identifier, parameters) ==
  [node |-> "FunctionCall", identifier |-> identifier, parameters |-> parameters]
InstantiationNode(identifier, parameters) ==
  [node |-> "Instantiation", identifier |-> identifier, parameters |-> parameters]
TupleIndexOpNode(tuple, index) == [node |-> "TupleIndexOp", tuple |-> tuple, index |-> index]
BinaryOpNode(left, operator, right) ==
  [node |-> "BinaryOp", left |-> left, operator |-> operator, right |-> right]
UnaryOpNode(operator, expression) ==
  [node |-> "UnaryOp", operator |-> operator, expression |-> expression]
NullaryOpNode(operator) == [node |-> "NullaryOp", operator |-> operator]
ArrayNode(elements) == [node |-> "Array", elements |-> elements]

IdentifierNode(name) == [node |-> "Identifier", name |-> name]
BoolLiteralNode(value) == [node |-> "BoolLiteral", bool |-> value]
IntLiteralNode(value) == [node |-> "IntLiteral", int |-> value]
StringLiteralNode(value) == [node |-> "StringLiteral", string |-> value]
HexLiteralNode(value) == [node |-> "HexLiteral", hex |-> value]
PushDataNode(data) == [node |-> "PushData", data |-> data]
PushRefNode(op, ref, drop) == [node |-> "PushRef", op |-> op, ref |-> ref, drop |-> drop]
StateScriptNode(statements) == [node |-> "StateScript", statements |-> statements]
UnsetNode(identifier) == [node |-> "Unset", identifier |-> identifier]
==========================================================================
