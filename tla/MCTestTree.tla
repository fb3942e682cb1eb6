----------------------------- MODULE MCTestTree -----------------------------
EXTENDS TestTree

Found(binary, kind, module, name, ignored) ==
  [package |-> "p", binary |-> binary, kind |-> kind, module |-> module,
   name |-> name, ignored |-> ignored]

\* A library with a nested module; a package with an ignored test in the
\* library and an integration test in a module of the same name.
Library == <<Found("p", "lib", <<"m">>, "a", FALSE),
             Found("p", "lib", <<"m", "n">>, "b", FALSE)>>
Package == <<Found("p", "lib", <<"m">>, "a", TRUE),
             Found("it", "test", <<"m">>, "a", FALSE)>>
\* src/cli.rs, with a module, and tests/cli.rs, with one of the same name.
ModuleAndTarget == <<Found("p", "lib", <<"cli", "m">>, "a", FALSE),
                     Found("cli", "test", <<"m">>, "b", FALSE)>>
\* tests/cli.rs and a program of the package, with the modules cli and m.
TargetAndModule == <<Found("cli", "test", <<"m">>, "a", FALSE),
                     Found("q", "bin", <<"cli", "m">>, "b", FALSE)>>
SomePackages == {Library, Package, ModuleAndTarget, TargetAndModule}
OneLibrary == {Library}
ASSUME NamesAreApart == Discoveries = SomePackages => TestsApart

\* A test function and a module of one name.
TestAndModule == {<<Found("p", "lib", <<"m">>, "parse", FALSE),
                    Found("p", "lib", <<"m", "parse">>, "edge", FALSE)>>}

ResultFilters == {"Passed", "Skipped"}
=============================================================================
